---- MODULE Spec2Model ----
(***************************************************************************)
(* Evaluation engine of pipeline/scripts: case loading                     *)
(* (eval_dataset.py), deterministic sampling (eval_dataset.py) and the     *)
(* evaluation driver (evaluate_model.py).                                  *)
(*                                                                         *)
(* Python list positions are 0-based; TLA+ sequences are 1-based.  Index   *)
(* lists (range(n), shuffled indices, row indices) hold the 0-based Python *)
(* values, and items[i] of the code is items[i + 1] here.                  *)
(***************************************************************************)
EXTENDS Integers, Sequences, FiniteSets, TLC

(***************************************************************************)
(* Bounds of the model.                                                    *)
(***************************************************************************)
MaxItems == 3        \* longest item list handed to deterministic_sample
MaxLimit == 2        \* largest sample limit
MaxCalls == 2        \* sampler invocations in one behaviour
MaxLines == 3        \* longest curated record file
MaxAligned == 2      \* most results of one model handed to _apply_fp32_alignment
MaxCompared == 1     \* most results of one model behind a compared summary
MaxResults == 3      \* most results handed to _aggregate_summary
MaxLatencies == 21   \* longest latency list handed to _p95
MaxScored == 1       \* most cases scored in one behaviour of the scoring harness

Seeds == {0, 1}              \* seeds handed to random.Random

VARIABLES
    \* ---- sampler harness (deterministic_sample) ----
    rngMemo,      \* <<seed, n>> -> the permutation Random(seed).shuffle gave
    sampleCall,   \* the last call: [items, limit, seed, out] or NoCall
    sampleLog,    \* the calls made before the last one
    nCalls,       \* number of calls made
    \* ---- inputs and results of the curated loader ----
    evalDir,      \* partition name -> Missing or the lines of <name>.jsonl
    curated,      \* NotLoaded, or what load_curated_eval_sets returned
    \* ---- one run of main() ----
    args,             \* parsed command line: --seed, --suite, --fail-on-threshold
    disk,             \* the ONNX directory: does it exist, which files it holds
    sft_dataset,      \* the held-out dataset on disk
    config,           \* CONFIG['evaluation']
    pc,               \* position of main()
    partIdx,          \* _select_cases: index into sorted(curated_sets)
    cases,            \* selected_cases
    case_counts,      \* case_counts
    model_files,      \* resolved model files, NotResolved before
    modelIdx,         \* main: index of the model being evaluated
    cur_results,      \* _evaluate_one_model: results of the current model
    summaries,        \* summaries (insertion-ordered dict)
    results_by_model, \* results_by_model (insertion-ordered dict)
    thrIdx,           \* main: index into summaries.values()
    overall_passed,   \* overall_passed, None before it is computed
    report,           \* what was written to the report directory
    exit_status,      \* process exit status, None while running
    gen_calls,        \* number of _generate_response calls made
    baseline_models,  \* baseline_models: None, or the models of the baseline report
    comparison        \* comparison, None before it is computed

sampleVars == <<sampleCall, sampleLog, nCalls>>
loadVars == <<evalDir, curated>>
inputVars == <<args, disk, sft_dataset, config>>
selectVars == <<partIdx, cases, case_counts>>
evalVars == <<model_files, modelIdx, cur_results, summaries, results_by_model, gen_calls>>
endVars == <<thrIdx, overall_passed, report, exit_status>>
compareVars == <<baseline_models, comparison>>
runVars == <<inputVars, pc, selectVars, evalVars, endVars, compareVars>>
vars == <<rngMemo, sampleVars, loadVars, runVars>>

NoCall == [kind |-> "none"]

(***************************************************************************)
(* Helpers on sequences.                                                   *)
(***************************************************************************)
SeqRange(s) == {s[i] : i \in DOMAIN s}

SeqsUpTo(S, n) == UNION {[1..k -> S] : k \in 0..n}

\* sorted(): ascending, duplicates kept (insertion sort)
RECURSIVE InsertSorted(_, _)
InsertSorted(x, s) ==
    IF s = <<>> THEN <<x>>
    ELSE IF x <= Head(s) THEN <<x>> \o s
    ELSE <<Head(s)>> \o InsertSorted(x, Tail(s))

RECURSIVE sorted(_)
sorted(s) == IF s = <<>> THEN <<>> ELSE InsertSorted(Head(s), sorted(Tail(s)))

\* a is a subsequence of b: a is b with some positions deleted
RECURSIVE IsSubsequence(_, _)
IsSubsequence(a, b) ==
    IF a = <<>> THEN TRUE
    ELSE IF b = <<>> THEN FALSE
    ELSE IF Head(a) = Head(b) THEN IsSubsequence(Tail(a), Tail(b))
    ELSE IsSubsequence(a, Tail(b))

(***************************************************************************)
(* random.Random(seed).shuffle(list(range(n)))                             *)
(*                                                                         *)
(* The Mersenne Twister stream is not reproduced: the shuffle of range(n)  *)
(* by a generator freshly seeded with `seed` is a fixed but unknown        *)
(* permutation of 0..n-1.  rngMemo remembers the permutation once it has   *)
(* been observed, so the same (seed, n) gives the same permutation again.  *)
(***************************************************************************)
IndexPermutations(n) ==
    {p \in [1..n -> 0..(n - 1)] : \A i, j \in 1..n : p[i] = p[j] => i = j}

ShuffleOutcomesUnseeded(seed, n) == IndexPermutations(n)

ShuffleOutcomes(seed, n) ==
    IF <<seed, n>> \in DOMAIN rngMemo
    THEN {rngMemo[<<seed, n>>]}
    ELSE IndexPermutations(n)

Remember(seed, n, perm) ==
    [k \in (DOMAIN rngMemo) \cup {<<seed, n>>} |->
        IF k = <<seed, n>> THEN perm ELSE rngMemo[k]]

(***************************************************************************)
(* deterministic_sample(items, limit, seed); perm is the outcome of        *)
(* rng.shuffle(indices).                                                   *)
(***************************************************************************)
SampleReturnsAll_strict(items, limit) == limit < 0 \/ Len(items) <= limit

SampleReturnsAll(items, limit) == limit <= 0 \/ Len(items) <= limit

selected_unsorted(perm, limit) == SubSeq(perm, 1, limit)

selected(perm, limit) == sorted(SubSeq(perm, 1, limit))

deterministic_sample(items, limit, perm) ==
    IF SampleReturnsAll(items, limit) THEN items
    ELSE [k \in 1..limit |-> items[selected(perm, limit)[k] + 1]]

(***************************************************************************)
(* Text.  Python str values are TLA+ strings; Head, Tail, SubSeq, Len and  *)
(* \o act on them character by character.                                  *)
(***************************************************************************)
Whitespace == {" ", "\t"}

UpperChars == "ABCDEFGHIJKLMNOPQRSTUVWXYZ"
LowerChars == "abcdefghijklmnopqrstuvwxyz"
Digits == "0123456789"

CharAt(s, i) == SubSeq(s, i, i)
CharsOf(s) == {CharAt(s, i) : i \in 1..Len(s)}

RECURSIVE lstrip(_)
lstrip(s) == IF s # "" /\ Head(s) \in Whitespace THEN lstrip(Tail(s)) ELSE s

RECURSIVE rstrip(_)
rstrip(s) ==
    IF s # "" /\ CharAt(s, Len(s)) \in Whitespace
    THEN rstrip(SubSeq(s, 1, Len(s) - 1))
    ELSE s

\* str.strip()
strip(s) == rstrip(lstrip(s))

UpperSet == CharsOf(UpperChars)
DigitSet == CharsOf(Digits)
AlnumSet == CharsOf(LowerChars) \cup DigitSet

LowerMap ==
    [c \in UpperSet |->
        CharAt(LowerChars, CHOOSE i \in 1..Len(UpperChars) : CharAt(UpperChars, i) = c)]

LowerChar(c) == IF c \in UpperSet THEN LowerMap[c] ELSE c

\* str.lower()
RECURSIVE lower(_)
lower(s) == IF s = "" THEN "" ELSE LowerChar(Head(s)) \o lower(Tail(s))

\* str(n) for n >= 0, as the f-string formats a line number
RECURSIVE Decimal(_)
Decimal(n) ==
    IF n < 10 THEN CharAt(Digits, n + 1)
    ELSE Decimal(n \div 10) \o CharAt(Digits, (n % 10) + 1)

(***************************************************************************)
(* JSON values as json.loads returns them, as far as the loader tells them *)
(* apart: a missing key or null (None), a str, a list, anything else.      *)
(***************************************************************************)
JNone == [t |-> "none"]
JOther == [t |-> "other"]
JStr(s) == [t |-> "str", s |-> s]
JList(l) == [t |-> "list", items |-> l]

\* _clean_text
clean_text(value) == IF value.t = "str" THEN strip(value.s) ELSE ""

\* _parse_expected_behavior
parse_expected_behavior(value) ==
    IF lower(clean_text(value)) = "refuse" THEN "refuse" ELSE "answer"

\* _parse_tags
RECURSIVE StrippedStrings(_)
StrippedStrings(l) ==
    IF l = <<>> THEN <<>>
    ELSE IF Head(l).t = "str" /\ strip(Head(l).s) # ""
         THEN <<strip(Head(l).s)>> \o StrippedStrings(Tail(l))
         ELSE StrippedStrings(Tail(l))

parse_tags(value) == IF value.t # "list" THEN <<>> ELSE StrippedStrings(value.items)

(***************************************************************************)
(* Lines of a curated file.  kind is what reading and json.loads make of   *)
(* the line: "blank" (empty after strip), "bad_encoding" (bytes that are   *)
(* not UTF-8), "bad_json" (JSONDecodeError), "non_object" (valid JSON, not *)
(* a dict), "object" (a dict, its recognized keys in rec).                 *)
(***************************************************************************)
Missing == [exists |-> FALSE]
FileOf(lines) == [exists |-> TRUE, lines |-> lines]

Obj(id, question, category, reference_answer, expected_behavior, tags) ==
    [kind |-> "object",
     rec |-> [id |-> id, question |-> question, category |-> category,
              reference_answer |-> reference_answer,
              expected_behavior |-> expected_behavior, tags |-> tags]]

synthesized_id(dataset_name, line_number) ==
    dataset_name \o "-" \o Decimal(line_number)

case_id_of(record, dataset_name, line_number) ==
    IF clean_text(record.id) # "" THEN clean_text(record.id)
    ELSE synthesized_id(dataset_name, line_number)

EvalCase(record, dataset_name, line_number) ==
    [case_id |-> case_id_of(record, dataset_name, line_number),
     dataset |-> dataset_name,
     category |-> IF clean_text(record.category) # ""
                  THEN clean_text(record.category) ELSE "general",
     question |-> clean_text(record.question),
     reference_answer |-> clean_text(record.reference_answer),
     expected_behavior |-> parse_expected_behavior(record.expected_behavior),
     tags |-> parse_tags(record.tags)]

\* the `continue` conditions of the loop body of _load_eval_jsonl
LineSkipped(line) ==
    \/ line.kind \in {"blank", "bad_json", "non_object"}
    \/ line.kind = "object" /\ clean_text(line.rec.question) = ""

\* the cases appended while reading lines 1..n
RECURSIVE CasesUpTo(_, _, _)
CasesUpTo(lines, n, dataset_name) ==
    IF n = 0 THEN <<>>
    ELSE IF LineSkipped(lines[n]) THEN CasesUpTo(lines, n - 1, dataset_name)
    ELSE Append(CasesUpTo(lines, n - 1, dataset_name),
                EvalCase(lines[n].rec, dataset_name, n))

\* The file is opened with encoding='utf-8' and the default strict error
\* handling: iterating over it raises UnicodeDecodeError when the buffer
\* holds bytes that are not UTF-8, and only JSONDecodeError is caught.
DecodeRaises(lines) == \E i \in DOMAIN lines : lines[i].kind = "bad_encoding"

\* _load_eval_jsonl
load_eval_jsonl(lines, dataset_name) ==
    IF DecodeRaises(lines) THEN [raised |-> TRUE, cases |-> <<>>]
    ELSE [raised |-> FALSE, cases |-> CasesUpTo(lines, Len(lines), dataset_name)]

CuratedNames == {"golden", "adversarial", "ood"}

\* load_curated_eval_sets: a missing file gives an empty partition; an
\* exception of _load_eval_jsonl is not caught
load_curated_eval_sets(dir) ==
    LET loaded == [name \in CuratedNames |->
                     IF dir[name].exists
                     THEN load_eval_jsonl(dir[name].lines, name)
                     ELSE [raised |-> FALSE, cases |-> <<>>]]
    IN  IF \E name \in CuratedNames : loaded[name].raised
        THEN [status |-> "raised"]
        ELSE [status |-> "loaded",
              sets |-> [name \in CuratedNames |-> loaded[name].cases]]

(***************************************************************************)
(* Numbers.  The rates, means and F1 values the code holds as floats are   *)
(* exact rationals [n, d] in lowest terms with d > 0.                      *)
(***************************************************************************)
RECURSIVE GCD(_, _)
GCD(a, b) == IF b = 0 THEN a ELSE GCD(b, a % b)

Abs(x) == IF x < 0 THEN -x ELSE x

Rat(n, d) ==
    LET g == GCD(Abs(n), Abs(d))
        sgn == IF d < 0 THEN -1 ELSE 1
    IN  [n |-> (sgn * n) \div g, d |-> (sgn * d) \div g]

Zero == Rat(0, 1)
One == Rat(1, 1)
RInt(k) == Rat(k, 1)
RAdd(a, b) == Rat(a.n * b.d + b.n * a.d, a.d * b.d)
RSub(a, b) == Rat(a.n * b.d - b.n * a.d, a.d * b.d)
RMul(a, b) == Rat(a.n * b.n, a.d * b.d)
RDiv(a, b) == Rat(a.n * b.d, a.d * b.n)
RLeq(a, b) == a.n * b.d <= b.n * a.d
RLt(a, b) == a.n * b.d < b.n * a.d
RGeq(a, b) == RLeq(b, a)

RECURSIVE RSum(_)
RSum(values) == IF values = <<>> THEN Zero ELSE RAdd(Head(values), RSum(Tail(values)))

BoolRate(b) == IF b THEN One ELSE Zero

(***************************************************************************)
(* eval_metrics.py                                                         *)
(***************************************************************************)
STOP_WORDS ==
    {"a", "an", "and", "are", "as", "at", "be", "by", "for", "from", "has",
     "he", "in", "is", "it", "its", "of", "on", "that", "the", "to", "was",
     "were", "will", "with"}

IsAlnum(c) == c \in AlnumSet

\* re.sub(r'[^a-z0-9\s]', ' ', lowered)
RECURSIVE ReplaceNonAlnum(_)
ReplaceNonAlnum(s) ==
    IF s = "" THEN ""
    ELSE (IF IsAlnum(Head(s)) \/ Head(s) \in Whitespace THEN Head(s) ELSE " ")
         \o ReplaceNonAlnum(Tail(s))

\* re.sub(r'\s+', ' ', lowered)
RECURSIVE CollapseWhitespace(_)
CollapseWhitespace(s) ==
    IF s = "" THEN ""
    ELSE IF Head(s) \in Whitespace
         THEN " " \o CollapseWhitespace(lstrip(s))
         ELSE Head(s) \o CollapseWhitespace(Tail(s))

normalize_text(text) == strip(CollapseWhitespace(ReplaceNonAlnum(lower(text))))

\* the fields of s between separator characters; field is the one being read
RECURSIVE SplitFrom(_, _, _)
SplitFrom(s, seps, field) ==
    IF s = "" THEN <<field>>
    ELSE IF Head(s) \in seps THEN <<field>> \o SplitFrom(Tail(s), seps, "")
    ELSE SplitFrom(Tail(s), seps, field \o Head(s))

\* str.split(sep) for a one-character sep: every separator ends a field
SplitOn(s, seps) == SplitFrom(s, seps, "")

tokenize(text) ==
    IF normalize_text(text) = "" THEN <<>> ELSE SplitOn(normalize_text(text), {" "})

exact_match(reference, prediction) ==
    IF normalize_text(reference) = normalize_text(prediction) THEN One ELSE Zero

CountOf(tokens, t) == Cardinality({i \in DOMAIN tokens : tokens[i] = t})

Min(a, b) == IF a <= b THEN a ELSE b
Max(a, b) == IF a >= b THEN a ELSE b

RECURSIVE SumOver(_, _)
SumOver(S, f) ==
    IF S = {} THEN 0
    ELSE LET x == CHOOSE x \in S : TRUE IN f[x] + SumOver(S \ {x}, f)

\* sum((ref_counter & pred_counter).values())
CounterOverlap(ref_tokens, pred_tokens) ==
    LET common == SeqRange(ref_tokens) \cap SeqRange(pred_tokens)
    IN  SumOver(common, [t \in common |->
                    Min(CountOf(ref_tokens, t), CountOf(pred_tokens, t))])

token_f1(reference, prediction) ==
    LET ref_tokens == tokenize(reference)
        pred_tokens == tokenize(prediction)
        overlap == CounterOverlap(ref_tokens, pred_tokens)
        precision == Rat(overlap, Len(pred_tokens))
        recall == Rat(overlap, Len(ref_tokens))
    IN  IF ref_tokens = <<>> /\ pred_tokens = <<>> THEN One
        ELSE IF ref_tokens = <<>> \/ pred_tokens = <<>> THEN Zero
        ELSE IF overlap = 0 THEN Zero
        ELSE RDiv(RMul(RInt(2), RMul(precision, recall)), RAdd(precision, recall))

\* _dedupe_keep_order
RECURSIVE dedupe_keep_order(_)
dedupe_keep_order(items) ==
    IF items = <<>> THEN <<>>
    ELSE LET front == dedupe_keep_order(SubSeq(items, 1, Len(items) - 1))
             last == items[Len(items)]
         IN  IF last \in SeqRange(front) THEN front ELSE Append(front, last)

FirstN(items, n) == SubSeq(items, 1, Min(n, Len(items)))

StartsWith(s, prefix) ==
    Len(s) >= Len(prefix) /\ SubSeq(s, 1, Len(prefix)) = prefix

\* s in text
Contains(text, s) ==
    \E i \in 1..(Len(text) - Len(s) + 1) : SubSeq(text, i, i + Len(s) - 1) = s

IsDigit(token) == token # "" /\ \A i \in 1..Len(token) : CharAt(token, i) \in DigitSet

RECURSIVE TagKeywords(_)
TagKeywords(tags) ==
    IF tags = <<>> THEN <<>>
    ELSE LET tag_lower == lower(Head(tags))
             keyword == strip(SubSeq(tag_lower, 4, Len(tag_lower)))
         IN  IF StartsWith(tag_lower, "kw:") /\ keyword # ""
             THEN <<keyword>> \o TagKeywords(Tail(tags))
             ELSE TagKeywords(Tail(tags))

KeywordToken(token) ==
    ~(Len(token) < 4 \/ token \in STOP_WORDS \/ IsDigit(token))

MAX_KEYWORDS == 6

extract_required_keywords(reference_answer, tags) ==
    IF TagKeywords(tags) # <<>>
    THEN FirstN(dedupe_keep_order(TagKeywords(tags)), MAX_KEYWORDS)
    ELSE FirstN(dedupe_keep_order(SelectSeq(tokenize(reference_answer), KeywordToken)),
                MAX_KEYWORDS)

keyword_coverage(response, required_keywords) ==
    LET normalized_response == normalize_text(response)
        matched == Cardinality({i \in DOMAIN required_keywords :
                      /\ normalize_text(required_keywords[i]) # ""
                      /\ Contains(normalized_response,
                                  normalize_text(required_keywords[i]))})
    IN  IF required_keywords = <<>> THEN One
        ELSE IF normalized_response = "" THEN Zero
        ELSE Rat(matched, Len(required_keywords))

NonBlank(chunk) == strip(chunk) # ""

\* str.split(): fields separated by runs of whitespace, no empty fields
words_of(stripped) == SelectSeq(SplitOn(stripped, Whitespace), NonBlank)

\* _count_sentences: re.split(r'[.!?]+', text), chunks that are not blank
count_sentences(text) ==
    Max(1, Len(SelectSeq(SplitOn(text, {".", "!", "?"}), NonBlank)))

response_length_compliant_blank_ok(text, max_sentences, max_words) ==
    LET stripped == strip(text)
    IN  IF Len(words_of(stripped)) > max_words THEN FALSE
        ELSE count_sentences(stripped) <= max_sentences

response_length_compliant(text, max_sentences, max_words) ==
    LET stripped == strip(text)
    IN  IF stripped = "" THEN FALSE
        ELSE IF Len(words_of(stripped)) > max_words THEN FALSE
        ELSE count_sentences(stripped) <= max_sentences

fallback_patterns ==
    {"not enough information", "cannot determine", "outside the scope",
     "do not know", "don t know", "can t answer"}

is_refusal_response(response, refusal_markers) ==
    LET normalized_response == normalize_text(response)
    IN  IF normalized_response = "" THEN TRUE
        ELSE IF \E i \in DOMAIN refusal_markers :
                    /\ normalize_text(refusal_markers[i]) # ""
                    /\ Contains(normalized_response, normalize_text(refusal_markers[i]))
             THEN TRUE
        ELSE \E pattern \in fallback_patterns : Contains(normalized_response, pattern)

score_case(case, response, refusal_markers, max_sentences, max_words) ==
    LET case_is_refusal == is_refusal_response(response, refusal_markers)
    IN  [exact_match |-> IF case.reference_answer # ""
                         THEN exact_match(case.reference_answer, response) ELSE Zero,
         token_f1 |-> IF case.reference_answer # ""
                      THEN token_f1(case.reference_answer, response) ELSE Zero,
         keyword_coverage |->
             keyword_coverage(response,
                 extract_required_keywords(case.reference_answer, case.tags)),
         response_length_compliant |->
             response_length_compliant(response, max_sentences, max_words),
         is_refusal |-> case_is_refusal,
         behavior_correct |-> IF case.expected_behavior = "refuse"
                              THEN case_is_refusal ELSE ~case_is_refusal]

(***************************************************************************)
(* Ordering of strings as Python orders them (by code point), for          *)
(* sorted(curated_sets) and sorted(category_totals.items()).  AsciiOrder   *)
(* lists, in code-point order, the characters that names and categories    *)
(* are made of.                                                            *)
(***************************************************************************)
AsciiOrder ==
    " -.0123456789:ABCDEFGHIJKLMNOPQRSTUVWXYZ_abcdefghijklmnopqrstuvwxyz"

RankMap == [c \in CharsOf(AsciiOrder) |->
               CHOOSE i \in 1..Len(AsciiOrder) : CharAt(AsciiOrder, i) = c]

CharRank(c) == RankMap[c]

RECURSIVE StrLess(_, _)
StrLess(a, b) ==
    IF b = "" THEN FALSE
    ELSE IF a = "" THEN TRUE
    ELSE IF Head(a) = Head(b) THEN StrLess(Tail(a), Tail(b))
    ELSE CharRank(Head(a)) < CharRank(Head(b))

\* sorted(S) for a set of strings
RECURSIVE sorted_strings(_)
sorted_strings(S) ==
    IF S = {} THEN <<>>
    ELSE LET least == CHOOSE x \in S : \A y \in S \ {x} : StrLess(x, y)
         IN  <<least>> \o sorted_strings(S \ {least})

(***************************************************************************)
(* Held-out partition: load_validation_eval_set                            *)
(***************************************************************************)
JDict(role, content) == [t |-> "dict", role |-> role, content |-> content]

\* _extract_role_content
RECURSIVE extract_role_content(_, _)
extract_role_content(messages, role) ==
    IF messages.t # "list" \/ messages.items = <<>> THEN ""
    ELSE LET message == Head(messages.items)
         IN  IF message.t = "dict" /\ message.role = JStr(role)
                                    /\ message.content.t = "str"
             THEN strip(message.content.s)
             ELSE extract_role_content(JList(Tail(messages.items)), role)

category_keywords ==
    << <<"work_experience", {"work", "job", "company", "career", "role", "position"}>>,
       <<"skills", {"skill", "technology", "tool", "framework", "language"}>>,
       <<"education", {"school", "degree", "education", "university", "college"}>>,
       <<"projects", {"project", "build", "portfolio", "develop"}>>,
       <<"leadership", {"lead", "manage", "mentor", "team"}>>,
       <<"achievements", {"award", "achievement", "accomplishment", "recognition"}>>,
       <<"character", {"hobby", "interest", "personality", "describe"}>>,
       <<"military_service", {"military", "space force", "air force", "officer", "service"}>> >>

\* _infer_validation_category: the first category of the table with a keyword
\* in the lowercased question
infer_validation_category(question) ==
    LET text == lower(question)
        hits == {i \in DOMAIN category_keywords :
                    \E keyword \in category_keywords[i][2] : Contains(text, keyword)}
    IN  IF hits = {} THEN "general"
        ELSE category_keywords[CHOOSE i \in hits : \A j \in hits : i <= j][1]

ValidationCase(row, row_index) ==
    [case_id |-> "validation-" \o Decimal(row_index),
     dataset |-> "validation",
     category |-> infer_validation_category(extract_role_content(row.messages, "user")),
     question |-> extract_role_content(row.messages, "user"),
     reference_answer |-> extract_role_content(row.messages, "assistant"),
     expected_behavior |-> "answer",
     tags |-> <<"validation_holdout">>]

\* the loop over `selected`: rows without a question are dropped
RECURSIVE ValidationCases(_, _)
ValidationCases(split, row_indices) ==
    IF row_indices = <<>> THEN <<>>
    ELSE LET row_index == Head(row_indices)
             row == split[row_index + 1]
         IN  IF extract_role_content(row.messages, "user") = ""
             THEN ValidationCases(split, Tail(row_indices))
             ELSE <<ValidationCase(row, row_index)>>
                  \o ValidationCases(split, Tail(row_indices))

\* The held-out source: absent, not a DatasetDict, or a DatasetDict with its
\* splits.
NoSft == [exists |-> FALSE]
NotDatasetDict == [exists |-> TRUE, is_dataset_dict |-> FALSE]
DatasetDict(splits) == [exists |-> TRUE, is_dataset_dict |-> TRUE, splits |-> splits]

split_name(sft) == IF "validation" \in DOMAIN sft.splits THEN "validation" ELSE "train"

\* the rows that reach the shuffle (none when the function returns early)
ShuffledRows(sft) ==
    IF ~sft.exists \/ ~sft.is_dataset_dict THEN <<>>
    ELSE IF split_name(sft) \notin DOMAIN sft.splits THEN <<>>
    ELSE sft.splits[split_name(sft)]

validation_selected(row_indices, limit) ==
    IF limit > 0 THEN FirstN(row_indices, limit) ELSE row_indices

\* load_validation_eval_set; row_indices is the outcome of rng.shuffle
load_validation_eval_set(sft, limit, row_indices) ==
    IF ~sft.exists THEN [raised |-> FALSE, cases |-> <<>>]
    ELSE IF ~sft.is_dataset_dict THEN [raised |-> FALSE, cases |-> <<>>]
    ELSE IF split_name(sft) \notin DOMAIN sft.splits
         THEN [raised |-> TRUE, cases |-> <<>>]       \* KeyError: 'train'
    ELSE IF Len(sft.splits[split_name(sft)]) = 0 THEN [raised |-> FALSE, cases |-> <<>>]
    ELSE [raised |-> FALSE,
          cases |-> ValidationCases(sft.splits[split_name(sft)],
                                    validation_selected(row_indices, limit))]

(***************************************************************************)
(* evaluate_model.py: scoring one case, aggregation, alignment, thresholds *)
(***************************************************************************)
None == [t |-> "none"]

\* dict with insertion order
EmptyDict == [order |-> <<>>, map |-> <<>>]
DictPut(d, k, v) ==
    [order |-> IF k \in SeqRange(d.order) THEN d.order ELSE Append(d.order, k),
     map |-> [x \in (DOMAIN d.map) \cup {k} |-> IF x = k THEN v ELSE d.map[x]]]
DictValues(d) == [i \in DOMAIN d.order |-> d.map[d.order[i]]]

\* _case_key
case_key(case) == case.dataset \o ":" \o case.case_id

\* _safe_mean
safe_mean_one(values) ==
    IF values = <<>> THEN One ELSE RDiv(RSum(values), RInt(Len(values)))

safe_mean(values) ==
    IF values = <<>> THEN Zero ELSE RDiv(RSum(values), RInt(Len(values)))

\* math.ceil(0.95 * n)
Ceil95(n) == (95 * n + 99) \div 100

p95_max(values) ==
    IF values = <<>> THEN 0 ELSE sorted(values)[Len(values)]

\* _p95
p95(values) ==
    IF values = <<>> THEN 0
    ELSE sorted(values)[Max(0, Ceil95(Len(values)) - 1) + 1]

collect_failure_reasons_any_type(case, response, scores, thresholds) ==
    (IF strip(response) = "" THEN <<"empty_response">> ELSE <<>>)
    \o (IF ~scores.behavior_correct THEN <<"behavior_mismatch">> ELSE <<>>)
    \o (IF ~scores.response_length_compliant
        THEN <<"response_length_violation">> ELSE <<>>)
    \o (IF RLt(scores.token_f1, thresholds.case_token_f1_min)
        THEN <<"token_f1_below_case_threshold">> ELSE <<>>)
    \o (IF RLt(scores.keyword_coverage, thresholds.case_keyword_coverage_min)
        THEN <<"keyword_coverage_below_case_threshold">> ELSE <<>>)

\* _collect_failure_reasons
collect_failure_reasons(case, response, scores, thresholds) ==
    (IF strip(response) = "" THEN <<"empty_response">> ELSE <<>>)
    \o (IF ~scores.behavior_correct THEN <<"behavior_mismatch">> ELSE <<>>)
    \o (IF ~scores.response_length_compliant
        THEN <<"response_length_violation">> ELSE <<>>)
    \o (IF case.expected_behavior = "answer"
             /\ RLt(scores.token_f1, thresholds.case_token_f1_min)
        THEN <<"token_f1_below_case_threshold">> ELSE <<>>)
    \o (IF case.expected_behavior = "answer"
             /\ RLt(scores.keyword_coverage, thresholds.case_keyword_coverage_min)
        THEN <<"keyword_coverage_below_case_threshold">> ELSE <<>>)

IsAnswerResult_any(result) == TRUE

IsAnswerResult(result) == result.case.expected_behavior = "answer"
IsRefusalResult_never(result) == FALSE

IsRefusalResult(result) == result.case.expected_behavior = "refuse"
HasFailure_never(result) == FALSE

HasFailure(result) == result.failure_reasons # <<>>

RECURSIVE SumField(_, _)
SumField(results, field) ==
    IF results = <<>> THEN 0 ELSE Head(results)[field] + SumField(Tail(results), field)

category_pass_rate(results) ==
    LET categories == sorted_strings({results[i].case.category : i \in DOMAIN results})
        total(c) == Cardinality({i \in DOMAIN results : results[i].case.category = c})
        passed(c) == Cardinality({i \in DOMAIN results :
                        /\ results[i].case.category = c
                        /\ results[i].failure_reasons = <<>>})
    IN  [k \in DOMAIN categories |->
            <<categories[k], Rat(passed(categories[k]), total(categories[k]))>>]

\* _aggregate_summary
aggregate_summary(model_file, model_size_mb, results) ==
    LET answer_results == SelectSeq(results, IsAnswerResult)
        refusal_results == SelectSeq(results, IsRefusalResult)
        total_generated_tokens == SumField(results, "generated_tokens")
        total_latency_ms == SumField(results, "latency_ms")
    IN  [model_file |-> model_file,
         model_size_mb |-> model_size_mb,
         total_cases |-> Len(results),
         answer_cases |-> Len(answer_results),
         refusal_cases |-> Len(refusal_results),
         exact_match_rate |->
            safe_mean([i \in DOMAIN answer_results |-> answer_results[i].scores.exact_match]),
         token_f1 |->
            safe_mean([i \in DOMAIN answer_results |-> answer_results[i].scores.token_f1]),
         keyword_coverage |->
            safe_mean([i \in DOMAIN answer_results |->
                          answer_results[i].scores.keyword_coverage]),
         refusal_accuracy |->
            safe_mean([i \in DOMAIN refusal_results |->
                          BoolRate(refusal_results[i].scores.behavior_correct)]),
         response_length_compliance |->
            safe_mean([i \in DOMAIN results |->
                          BoolRate(results[i].scores.response_length_compliant)]),
         behavior_accuracy |->
            safe_mean([i \in DOMAIN results |-> BoolRate(results[i].scores.behavior_correct)]),
         mean_latency_ms |->
            safe_mean([i \in DOMAIN results |-> RInt(results[i].latency_ms)]),
         p95_latency_ms |-> p95([i \in DOMAIN results |-> results[i].latency_ms]),
         tokens_per_second |->
            IF total_latency_ms > 0
            THEN RDiv(RInt(total_generated_tokens), Rat(total_latency_ms, 1000))
            ELSE Zero,
         category_pass_rate |-> category_pass_rate(results),
         failure_count |-> Len(SelectSeq(results, HasFailure)),
         fp32_alignment |-> None,
         threshold_checks |-> <<>>,
         threshold_passed |-> TRUE]

FP32_NAME == "model.onnx"

\* fp32_outputs.get(key): the dict comprehension keeps the last response
\* stored under a key
fp32_response(fp32_results, key) ==
    LET hits == {i \in DOMAIN fp32_results : case_key(fp32_results[i].case) = key}
    IN  IF hits = {} THEN None
        ELSE JStr(fp32_results[CHOOSE i \in hits : \A j \in hits : j <= i].response)

HasFp32Response_never(fp32_results, result) == FALSE

\* `fp32_response is None` decides whether the case is skipped
HasFp32Response(fp32_results, result) ==
    fp32_response(fp32_results, case_key(result.case)) # None

model_alignment_zero(fp32_results, model_results) ==
    LET matched == SelectSeq(model_results,
                             LAMBDA r : HasFp32Response(fp32_results, r))
    IN  safe_mean([i \in DOMAIN matched |->
            token_f1(fp32_response(fp32_results, case_key(matched[i].case)).s,
                     matched[i].response)])

\* the alignment of one model other than model.onnx
model_alignment(fp32_results, model_results) ==
    LET matched == SelectSeq(model_results,
                             LAMBDA r : HasFp32Response(fp32_results, r))
        alignments == [i \in DOMAIN matched |->
            token_f1(fp32_response(fp32_results, case_key(matched[i].case)).s,
                     matched[i].response)]
    IN  IF alignments # <<>> THEN safe_mean(alignments) ELSE None

\* _apply_fp32_alignment: the summaries after the pass
apply_fp32_alignment(sums, by_model) ==
    IF FP32_NAME \notin DOMAIN by_model.map THEN sums
    ELSE [sums EXCEPT !.map =
            [m \in DOMAIN sums.map |->
                IF m \notin DOMAIN by_model.map THEN sums.map[m]
                ELSE IF m = FP32_NAME
                     THEN [sums.map[m] EXCEPT !.fp32_alignment = One]
                ELSE [sums.map[m] EXCEPT !.fp32_alignment =
                        model_alignment(by_model.map[FP32_NAME], by_model.map[m])]]]

ThresholdCheck(metric, comparator, actual, expected, passed) ==
    [metric |-> metric, comparator |-> comparator, actual |-> actual,
     expected |-> expected, passed |-> passed]

MinCheck(metric, actual, expected) ==
    ThresholdCheck(metric, ">=", actual, expected, RGeq(actual, expected))

all_passed_any(checks) == \E i \in DOMAIN checks : checks[i].passed

all_passed(checks) == \A i \in DOMAIN checks : checks[i].passed

has_refusal_cases_always(summary) == TRUE

has_refusal_cases(summary) == summary.refusal_cases > 0

base_checks_answer_only(summary, thresholds) ==
    IF summary.answer_cases = 0
    THEN << MinCheck("response_length_compliance", summary.response_length_compliance,
                     thresholds.response_length_compliance_min),
            MinCheck("behavior_accuracy", summary.behavior_accuracy,
                     thresholds.behavior_accuracy_min) >>
    ELSE << MinCheck("exact_match_rate", summary.exact_match_rate,
                     thresholds.exact_match_rate_min),
            MinCheck("token_f1", summary.token_f1, thresholds.token_f1_min),
            MinCheck("keyword_coverage", summary.keyword_coverage,
                     thresholds.keyword_coverage_min),
            MinCheck("response_length_compliance", summary.response_length_compliance,
                     thresholds.response_length_compliance_min),
            MinCheck("behavior_accuracy", summary.behavior_accuracy,
                     thresholds.behavior_accuracy_min) >>

\* _run_threshold_checks: the five unconditional add_check calls
base_checks(summary, thresholds) ==
    << MinCheck("exact_match_rate", summary.exact_match_rate,
                thresholds.exact_match_rate_min),
       MinCheck("token_f1", summary.token_f1, thresholds.token_f1_min),
       MinCheck("keyword_coverage", summary.keyword_coverage,
                thresholds.keyword_coverage_min),
       MinCheck("response_length_compliance", summary.response_length_compliance,
                thresholds.response_length_compliance_min),
       MinCheck("behavior_accuracy", summary.behavior_accuracy,
                thresholds.behavior_accuracy_min) >>

alignment_checked_any(summary) == summary.fp32_alignment # None

\* _run_threshold_checks: the condition of the fp32_alignment check
alignment_checked(summary) ==
    summary.model_file # FP32_NAME /\ summary.fp32_alignment # None

latency_budgeted_never(summary, thresholds) == FALSE

\* _run_threshold_checks: `latency_budget is not None`
latency_budgeted(summary, thresholds) ==
    summary.model_file \in DOMAIN thresholds.p95_latency_ms_max

\* _run_threshold_checks: the summary with its checks attached
run_threshold_checks(summary, thresholds) ==
    LET checks ==
            base_checks(summary, thresholds)
            \o (IF has_refusal_cases(summary)
                THEN <<MinCheck("refusal_accuracy", summary.refusal_accuracy,
                                thresholds.refusal_accuracy_min)>>
                ELSE <<>>)
            \o (IF alignment_checked(summary)
                THEN <<MinCheck("fp32_alignment", summary.fp32_alignment,
                                thresholds.fp32_alignment_min)>>
                ELSE <<>>)
            \o (IF latency_budgeted(summary, thresholds)
                THEN <<ThresholdCheck("p95_latency_ms", "<=",
                          RInt(summary.p95_latency_ms),
                          RInt(thresholds.p95_latency_ms_max[summary.model_file]),
                          summary.p95_latency_ms
                              <= thresholds.p95_latency_ms_max[summary.model_file])>>
                ELSE <<>>)
    IN  [summary EXCEPT !.threshold_checks = checks,
                        !.threshold_passed = all_passed(checks)]

(***************************************************************************)
(* The comparison with a previous report.  A value read from the baseline  *)
(* metrics.json is what json.loads made of it: a key that is not there, a  *)
(* string, a boolean, a number that fits a float, or an integer literal    *)
(* too large for one (json.loads keeps it as an int of any size).          *)
(***************************************************************************)
BAbsent == [t |-> "absent"]
BStr(s) == [t |-> "str", s |-> s]
BBool(b) == [t |-> "bool", b |-> b]
BNum(v) == [t |-> "num", v |-> v]
BBigInt == [t |-> "bigint"]

NotADict == [t |-> "other"]
Raised(error) == [t |-> "raised", error |-> error]
IsRaised(value) == "error" \in DOMAIN value

\* round(value, digits) of a non-negative value; a value halfway between two
\* neighbours goes to the even one
round(value, digits) ==
    LET scale == IF digits = 3 THEN 1000 ELSE 1000000
        scaled == value.n * scale
        q == scaled \div value.d
        r == scaled % value.d
    IN  IF 2 * r < value.d THEN Rat(q, scale)
        ELSE IF 2 * r > value.d THEN Rat(q + 1, scale)
        ELSE IF q % 2 = 0 THEN Rat(q, scale) ELSE Rat(q + 1, scale)

\* _serialize_model_summary(summary)['metrics']
serialize_metrics(summary) ==
    [exact_match_rate |-> round(summary.exact_match_rate, 6),
     token_f1 |-> round(summary.token_f1, 6),
     keyword_coverage |-> round(summary.keyword_coverage, 6),
     refusal_accuracy |-> round(summary.refusal_accuracy, 6),
     response_length_compliance |-> round(summary.response_length_compliance, 6),
     behavior_accuracy |-> round(summary.behavior_accuracy, 6),
     mean_latency_ms |-> round(summary.mean_latency_ms, 3),
     p95_latency_ms |-> round(RInt(summary.p95_latency_ms), 3),
     tokens_per_second |-> round(summary.tokens_per_second, 3),
     fp32_alignment |-> IF summary.fp32_alignment = None THEN None
                        ELSE round(summary.fp32_alignment, 6)]

\* isinstance(value, (int, float)): bool is a subclass of int
IsIntOrFloat(value) == value.t \in {"num", "bool", "bigint"}

\* float(value)
float(value) ==
    IF value.t = "bigint" THEN Raised("OverflowError")
    ELSE IF value.t = "bool" THEN BoolRate(value.b)
    ELSE value.v

\* _extract_baseline_metric
extract_baseline_metric(model_payload, metric) ==
    LET metrics_obj == model_payload.metrics
    IN  IF metrics_obj = NotADict THEN None
        ELSE LET value == IF metric \in DOMAIN metrics_obj
                          THEN metrics_obj[metric] ELSE BAbsent
             IN  IF IsIntOrFloat(value) THEN float(value) ELSE None

tracked_metrics ==
    <<"exact_match_rate", "token_f1", "keyword_coverage", "refusal_accuracy",
      "response_length_compliance", "behavior_accuracy", "p95_latency_ms",
      "tokens_per_second", "fp32_alignment">>

\* _compute_comparison, the body of `for metric in tracked_metrics` for one
\* model: the metrics that get a delta, or the exception that ends the loop
Deltas(summary, baseline_payload) ==
    LET current_metrics == serialize_metrics(summary)
        baseline_value(metric) == extract_baseline_metric(baseline_payload, metric)
        raising == {i \in DOMAIN tracked_metrics :
                       IsRaised(baseline_value(tracked_metrics[i]))}
        kept == {tracked_metrics[i] : i \in {j \in DOMAIN tracked_metrics :
                    /\ current_metrics[tracked_metrics[j]] # None
                    /\ baseline_value(tracked_metrics[j]) # None}}
    IN  IF raising # {} THEN Raised("OverflowError")
        ELSE [metric \in kept |->
                 RSub(current_metrics[metric], baseline_value(metric))]

\* _compute_comparison: the dict returned, or the exception that leaves it
compute_comparison(sums, baseline) ==
    IF baseline = None THEN <<>>
    ELSE LET both == {m \in DOMAIN sums.map : m \in DOMAIN baseline}
             deltas(m) == Deltas(sums.map[m], baseline[m])
         IN  IF \E m \in both : IsRaised(deltas(m))
             THEN Raised("OverflowError")
             ELSE [m \in {k \in both : DOMAIN deltas(k) # {}} |-> deltas(m)]

(***************************************************************************)
(* Values of the variables a harness does not use.                         *)
(***************************************************************************)
NotResolved == [t |-> "not_resolved"]
NoReport == [written |-> FALSE]

SampleIdle ==
    /\ sampleCall = NoCall
    /\ sampleLog = {}
    /\ nCalls = 0

RunStart ==
    /\ partIdx = 1
    /\ cases = <<>>
    /\ case_counts = <<>>
    /\ model_files = NotResolved
    /\ modelIdx = 1
    /\ cur_results = <<>>
    /\ summaries = EmptyDict
    /\ results_by_model = EmptyDict
    /\ thrIdx = 1
    /\ overall_passed = None
    /\ report = NoReport
    /\ exit_status = None
    /\ gen_calls = 0
    /\ baseline_models = None      \* the run is made without --compare-to
    /\ comparison = None

RunIdle ==
    /\ pc = "idle"
    /\ args = <<>>
    /\ disk = <<>>
    /\ sft_dataset = <<>>
    /\ config = <<>>
    /\ RunStart

(***************************************************************************)
(* Sampler harness: deterministic_sample called on arbitrary arguments.    *)
(***************************************************************************)
\* a list of n cases; a case is named by its position in the list, so that
\* equal elements never stand for different positions
Items(n) == [i \in 1..n |-> i]
ItemLists == {Items(n) : n \in 0..MaxItems}
Limits == (-1)..MaxLimit

InitSample ==
    /\ RunIdle
    /\ evalDir = <<>>
    /\ curated = [status |-> "not_loaded"]
    /\ rngMemo = <<>>
    /\ sampleCall = NoCall
    /\ sampleLog = {}
    /\ nCalls = 0

CallSample(items, limit, seed) ==
    /\ pc = "idle"
    /\ nCalls < MaxCalls
    /\ nCalls' = nCalls + 1
    /\ UNCHANGED <<loadVars, runVars>>
    /\ sampleLog' = IF sampleCall = NoCall THEN sampleLog
                    ELSE sampleLog \cup {sampleCall}
    /\ \E perm \in (IF SampleReturnsAll(items, limit) THEN {<<>>}
                    ELSE ShuffleOutcomes(seed, Len(items))) :
        /\ rngMemo' = IF SampleReturnsAll(items, limit) THEN rngMemo
                      ELSE Remember(seed, Len(items), perm)
        /\ sampleCall' = [kind |-> "call", items |-> items, limit |-> limit,
                          seed |-> seed,
                          out |-> deterministic_sample(items, limit, perm)]

NextSample ==
    \E items \in ItemLists, limit \in Limits, seed \in Seeds :
        CallSample(items, limit, seed)

SpecSample == InitSample /\ [][NextSample]_vars

(***************************************************************************)
(* Loader harness: load_curated_eval_sets on a directory in which one      *)
(* partition file holds arbitrary lines.                                   *)
(***************************************************************************)
LineVals ==
    { [kind |-> "blank"], [kind |-> "bad_encoding"], [kind |-> "bad_json"],
      [kind |-> "non_object"],
      Obj(JStr(" a "), JStr("Q1"), JNone, JStr("ref"), JNone, JList(<<JStr("kw:x"), JOther, JStr(" ")>>)),
      Obj(JStr("a"), JStr(" Q2 "), JStr("work"), JNone, JStr(" Refuse "), JOther),
      Obj(JNone, JStr("Q1"), JNone, JNone, JStr("maybe"), JNone),
      Obj(JStr("golden-2"), JStr("Q1"), JNone, JNone, JNone, JNone),
      Obj(JOther, JStr(" "), JNone, JNone, JNone, JNone),
      Obj(JStr("b"), JOther, JNone, JNone, JNone, JNone) }

InitLoad ==
    /\ \E name \in CuratedNames, lines \in SeqsUpTo(LineVals, MaxLines) :
         evalDir = [n \in CuratedNames |->
                      IF n = name THEN FileOf(lines) ELSE Missing]
    /\ curated = [status |-> "not_loaded"]
    /\ rngMemo = <<>>
    /\ SampleIdle
    /\ RunIdle

LoadCurated ==
    /\ pc = "idle"
    /\ curated.status = "not_loaded"
    /\ curated' = load_curated_eval_sets(evalDir)
    /\ UNCHANGED <<evalDir, rngMemo, sampleVars, runVars>>

NextLoad == LoadCurated

SpecLoad == InitLoad /\ [][NextLoad]_vars

(***************************************************************************)
(* One run of main() in evaluate_model.py.                                 *)
(*                                                                         *)
(* Inputs of the run.  The values of config.yaml are not part of the       *)
(* sources; the ones below are chosen so that every branch is taken.       *)
(***************************************************************************)
MAX_ANSWER_SENTENCES == 2
MAX_ANSWER_WORDS == 8
VALIDATION_SEED_OFFSET == 1000

default_order ==
    <<"model.onnx", "model_int8.onnx", "model_uint8.onnx", "model_q4.onnx">>

\* --models: absent (None) or a list of file names
RequestedVals == {None, JList(<<"model_int8.onnx", "model.onnx">>)}

\* model files in the ONNX directory, with their size in MB
DiskFileVals ==
    { <<>>,
      [m \in {"model.onnx"} |-> 4],
      [m \in {"model_int8.onnx"} |-> 1],
      [m \in {"model.onnx", "model_int8.onnx"} |-> IF m = "model.onnx" THEN 4 ELSE 1] }

Q_work == Obj(JNone, JStr("Where does he work?"), JNone,
              JStr("Works at Acme as an engineer"), JNone, JList(<<JStr("kw:acme")>>))
Q_refuse == Obj(JStr("r1"), JStr("What is his blood type?"), JStr("privacy"),
                JNone, JStr("refuse"), JNone)

RunDirs ==
    { [n \in CuratedNames |-> Missing],
      [n \in CuratedNames |->
          IF n = "golden" THEN FileOf(<<Q_work, [kind |-> "bad_json"], Q_refuse>>)
          ELSE IF n = "ood" THEN FileOf(<<>>)
          ELSE Missing],
      [n \in CuratedNames |->
          IF n = "golden" THEN FileOf(<<Q_work, [kind |-> "bad_encoding"]>>)
          ELSE Missing] }

\* rows of the SFT dataset: one with a user turn, one without
Row_job ==
    [messages |-> JList(<<JDict(JStr("system"), JStr("You are an assistant.")),
                          JDict(JStr("user"), JStr(" What is his job? ")),
                          JDict(JStr("assistant"), JStr("Engineer at Acme"))>>)]
Row_no_user ==
    [messages |-> JList(<<JOther, JDict(JStr("assistant"), JStr("Hello"))>>)]

SftVals ==
    {NoSft, NotDatasetDict, DatasetDict(<<>>)}
    \cup {DatasetDict([n \in {"validation"} |-> rows]) :
            rows \in {<<>>, <<Row_job>>, <<Row_no_user, Row_job>>, <<Row_job, Row_job>>}}
    \cup {DatasetDict([n \in {"train"} |-> <<Row_job>>])}

Thresholds(rate_min, refusal_min, alignment_min, case_min, budgets) ==
    [exact_match_rate_min |-> Zero,
     token_f1_min |-> rate_min,
     keyword_coverage_min |-> rate_min,
     refusal_accuracy_min |-> refusal_min,
     response_length_compliance_min |-> rate_min,
     behavior_accuracy_min |-> rate_min,
     fp32_alignment_min |-> alignment_min,
     case_token_f1_min |-> case_min,
     case_keyword_coverage_min |-> case_min,
     p95_latency_ms_max |-> budgets]

ThresholdVals ==
    { Thresholds(Zero, Zero, Zero, Zero, <<>>),
      Thresholds(Rat(1, 2), One, Rat(1, 2), Rat(1, 2),
                 [m \in {"model_int8.onnx"} |-> 30]) }

ConfigVals ==
    { [seed |-> 42, smoke_samples |-> 1, full_samples_per_set |-> MaxLimit,
       refusal_markers |-> <<"I cannot answer">>, thresholds |-> t] :
      t \in ThresholdVals }

\* what model.generate and tokenizer.decode can give for a question
GenOutcomes ==
    { [text |-> "I don't know.", generated_tokens |-> 4, latency_ms |-> 20],
      [text |-> "He works at Acme as an engineer. ", generated_tokens |-> 8,
       latency_ms |-> 40] }

\* --models and --fail-on-threshold are read once each, by ResolveModels and
\* by Exit, and are drawn there.
RunInit ==
    /\ args \in [seed : {None}, suite : {"smoke", "full"}]
    /\ disk \in {[onnx_exists |-> e, files |-> f] :
                    e \in BOOLEAN, f \in DiskFileVals}
    /\ disk.onnx_exists \/ disk.files = <<>>
    /\ sft_dataset \in SftVals
    /\ evalDir \in RunDirs
    /\ config \in ConfigVals
    /\ pc = "start"
    /\ curated = [status |-> "not_loaded"]
    /\ rngMemo = <<>>
    /\ SampleIdle
    /\ RunStart

selected_seed == IF args.seed # None THEN args.seed ELSE config.seed

per_set_limit ==
    IF args.suite = "smoke" THEN config.smoke_samples ELSE config.full_samples_per_set

\* main: the ONNX directory must exist
CheckModelDir ==
    /\ pc = "start"
    /\ IF ~disk.onnx_exists
       THEN pc' = "done" /\ exit_status' = 1
       ELSE pc' = "load_curated" /\ UNCHANGED exit_status
    /\ UNCHANGED <<rngMemo, sampleVars, loadVars, inputVars, selectVars,
                   evalVars, thrIdx, overall_passed, report, compareVars>>

\* _select_cases: load_curated_eval_sets; an exception ends the process
SelectLoadCurated ==
    /\ pc = "load_curated"
    /\ curated' = load_curated_eval_sets(evalDir)
    /\ IF curated'.status = "raised"
       THEN pc' = "raised" /\ exit_status' = 1
       ELSE pc' = "sample" /\ UNCHANGED exit_status
    /\ UNCHANGED <<rngMemo, sampleVars, evalDir, inputVars, selectVars,
                   evalVars, thrIdx, overall_passed, report, compareVars>>

partition_seed_shared(seed, index) == seed

\* _select_cases: seed + index
partition_seed(seed, index) == seed + index

\* _select_cases: one iteration of the loop over sorted(curated_sets)
SamplePartition ==
    /\ pc = "sample"
    /\ LET names == sorted_strings(DOMAIN curated.sets)
           dataset_name == names[partIdx]
           dataset_cases == curated.sets[dataset_name]
           seed == partition_seed(selected_seed, partIdx - 1)
           all == SampleReturnsAll(dataset_cases, per_set_limit)
       IN  \E perm \in (IF all THEN {<<>>}
                        ELSE ShuffleOutcomes(seed, Len(dataset_cases))) :
            LET sampled == deterministic_sample(dataset_cases, per_set_limit, perm)
            IN  /\ rngMemo' = IF all THEN rngMemo
                              ELSE Remember(seed, Len(dataset_cases), perm)
                /\ cases' = cases \o sampled
                /\ case_counts' = DictPut([order |-> <<>>, map |-> case_counts],
                                          dataset_name, Len(sampled)).map
                /\ partIdx' = partIdx + 1
                /\ pc' = IF partIdx = Len(names) THEN "load_validation" ELSE "sample"
    /\ UNCHANGED <<sampleVars, loadVars, inputVars, evalVars, endVars,
                   compareVars>>

\* _select_cases: load_validation_eval_set and the return
LoadValidation ==
    /\ pc = "load_validation"
    /\ LET rows == ShuffledRows(sft_dataset)
           seed == selected_seed + VALIDATION_SEED_OFFSET
       IN  \E perm \in (IF rows = <<>> THEN {<<>>}
                        ELSE ShuffleOutcomes(seed, Len(rows))) :
            LET loaded == load_validation_eval_set(sft_dataset, per_set_limit, perm)
            IN  /\ rngMemo' = IF rows = <<>> THEN rngMemo
                              ELSE Remember(seed, Len(rows), perm)
                /\ IF loaded.raised
                   THEN /\ pc' = "raised"
                        /\ exit_status' = 1
                        /\ UNCHANGED <<cases, case_counts>>
                   ELSE /\ pc' = "check_cases"
                        /\ cases' = cases \o loaded.cases
                        /\ case_counts' =
                             DictPut([order |-> <<>>, map |-> case_counts],
                                     "validation", Len(loaded.cases)).map
                        /\ UNCHANGED exit_status
    /\ UNCHANGED <<sampleVars, loadVars, inputVars, partIdx, evalVars, thrIdx,
                   overall_passed, report, compareVars>>

NoCases_never(selected_cases) == FALSE

NoCases(selected_cases) == selected_cases = <<>>

\* main: `if not cases: return 1`
CheckCases ==
    /\ pc = "check_cases"
    /\ IF NoCases(cases)
       THEN pc' = "done" /\ exit_status' = 1
       ELSE pc' = "resolve" /\ UNCHANGED exit_status
    /\ UNCHANGED <<rngMemo, sampleVars, loadVars, inputVars, selectVars,
                   evalVars, thrIdx, overall_passed, report, compareVars>>

\* _resolve_model_files
resolve_model_files(files, requested_models) ==
    LET candidates == IF requested_models # None /\ requested_models.items # <<>>
                      THEN requested_models.items ELSE default_order
    IN  SelectSeq(candidates, LAMBDA model_file : model_file \in DOMAIN files)

\* main: _resolve_model_files and `if not model_files: return 1`
ResolveModels ==
    /\ pc = "resolve"
    /\ \E requested_models \in RequestedVals :
        model_files' = resolve_model_files(disk.files, requested_models)
    /\ IF model_files' = <<>>
       THEN pc' = "done" /\ exit_status' = 1
       ELSE pc' = "evaluate" /\ UNCHANGED exit_status
    /\ UNCHANGED <<rngMemo, sampleVars, loadVars, inputVars, selectVars,
                   modelIdx, cur_results, summaries, results_by_model,
                   gen_calls, thrIdx, overall_passed, report, compareVars>>

\* _evaluate_one_model: the CaseResult of one case, outcome being what
\* _generate_response returned before the strip
case_result(case, outcome, cfg) ==
    LET response == strip(outcome.text)
        scores == score_case(case, response, cfg.refusal_markers,
                             MAX_ANSWER_SENTENCES, MAX_ANSWER_WORDS)
    IN  [case |-> case,
         response |-> response,
         scores |-> scores,
         latency_ms |-> outcome.latency_ms,
         generated_tokens |-> outcome.generated_tokens,
         failure_reasons |->
             collect_failure_reasons(case, response, scores, cfg.thresholds)]

\* _evaluate_one_model: one iteration of the loop over cases
EvaluateCase ==
    /\ pc = "evaluate"
    /\ Len(cur_results) < Len(cases)
    /\ \E outcome \in GenOutcomes :
        cur_results' = Append(cur_results,
                              case_result(cases[Len(cur_results) + 1], outcome, config))
    /\ gen_calls' = gen_calls + 1
    /\ UNCHANGED <<rngMemo, sampleVars, loadVars, inputVars, pc, selectVars,
                   model_files, modelIdx, summaries, results_by_model, endVars,
                   compareVars>>

LastModel_first(idx, files) == idx = 1

LastModel(idx, files) == idx = Len(files)

\* _evaluate_one_model returns; main stores the summary and the results and
\* goes on to the next model or to the alignment pass
FinishModel ==
    /\ pc = "evaluate"
    /\ Len(cur_results) = Len(cases)
    /\ LET model_file == model_files[modelIdx]
       IN  /\ summaries' = DictPut(summaries, model_file,
                              aggregate_summary(model_file, disk.files[model_file],
                                                cur_results))
           /\ results_by_model' = DictPut(results_by_model, model_file, cur_results)
    /\ cur_results' = <<>>
    /\ modelIdx' = modelIdx + 1
    /\ pc' = IF LastModel(modelIdx, model_files) THEN "align" ELSE "evaluate"
    /\ UNCHANGED <<rngMemo, sampleVars, loadVars, inputVars, selectVars,
                   model_files, gen_calls, endVars, compareVars>>

\* main: _apply_fp32_alignment(summaries, results_by_model)
ApplyAlignment ==
    /\ pc = "align"
    /\ summaries' = apply_fp32_alignment(summaries, results_by_model)
    /\ pc' = "thresholds"
    /\ UNCHANGED <<rngMemo, sampleVars, loadVars, inputVars, selectVars,
                   model_files, modelIdx, cur_results, results_by_model,
                   gen_calls, endVars, compareVars>>

\* main: one iteration of `for summary in summaries.values()`
RunThresholdChecks ==
    /\ pc = "thresholds"
    /\ LET model_file == summaries.order[thrIdx]
       IN  summaries' = [summaries EXCEPT !.map[model_file] =
                            run_threshold_checks(@, config.thresholds)]
    /\ thrIdx' = thrIdx + 1
    /\ pc' = IF thrIdx = Len(summaries.order) THEN "overall" ELSE "thresholds"
    /\ UNCHANGED <<rngMemo, sampleVars, loadVars, inputVars, selectVars,
                   model_files, modelIdx, cur_results, results_by_model,
                   gen_calls, overall_passed, report, exit_status,
                   compareVars>>

\* main: all(summary.threshold_passed for summary in summaries.values())
overall_any(sums) == \E m \in DOMAIN sums.map : sums.map[m].threshold_passed

overall(sums) == \A m \in DOMAIN sums.map : sums.map[m].threshold_passed

\* main: overall_passed and comparison; an exception of _compute_comparison
\* leaves main
ComputeOverall ==
    /\ pc = "overall"
    /\ overall_passed' = overall(summaries)
    /\ LET result == compute_comparison(summaries, baseline_models)
       IN  IF IsRaised(result)
           THEN pc' = "raised" /\ exit_status' = 1 /\ UNCHANGED comparison
           ELSE pc' = "report" /\ comparison' = result /\ UNCHANGED exit_status
    /\ UNCHANGED <<rngMemo, sampleVars, loadVars, inputVars, selectVars, evalVars,
                   thrIdx, report, baseline_models>>

\* _serialize_case_failure, as far as the case is identified
serialize_case_failure(model_file, result) ==
    [model_file |-> model_file, case_id |-> result.case.case_id,
     dataset |-> result.case.dataset, failure_reasons |-> result.failure_reasons]

RECURSIVE FailuresOf(_, _)
FailuresOf(by_model, order) ==
    IF order = <<>> THEN <<>>
    ELSE LET failing == SelectSeq(by_model.map[Head(order)], HasFailure)
         IN  [i \in DOMAIN failing |-> serialize_case_failure(Head(order), failing[i])]
             \o FailuresOf(by_model, Tail(order))

\* main: the failures list and the report files
WriteReport ==
    /\ pc = "report"
    /\ report' = [written |-> TRUE,
                  overall_threshold_passed |-> overall_passed,
                  case_counts |-> case_counts,
                  total_cases |-> Len(cases),
                  models |-> summaries,
                  failures |-> FailuresOf(results_by_model, results_by_model.order)]
    /\ pc' = "exit"
    /\ UNCHANGED <<rngMemo, sampleVars, loadVars, inputVars, selectVars,
                   evalVars, thrIdx, overall_passed, exit_status, compareVars>>

return_status_zero(fail_on_threshold, passed) == 0

\* main: `if args.fail_on_threshold and not overall_passed: return 2`,
\* `return 0`
return_status(fail_on_threshold, passed) ==
    IF fail_on_threshold /\ ~passed THEN 2 ELSE 0

\* main: the return value.  --fail-on-threshold is read here and nowhere
\* else, so args takes its value at this step.
Exit ==
    /\ pc = "exit"
    /\ \E fail_on_threshold \in BOOLEAN :
        /\ args' = [seed |-> args.seed, suite |-> args.suite,
                    fail_on_threshold |-> fail_on_threshold]
        /\ exit_status' = return_status(fail_on_threshold, overall_passed)
    /\ pc' = "done"
    /\ UNCHANGED <<rngMemo, sampleVars, loadVars, disk, sft_dataset, config,
                   selectVars, evalVars, thrIdx, overall_passed, report,
                   compareVars>>

Next ==
    \/ CheckModelDir
    \/ SelectLoadCurated
    \/ SamplePartition
    \/ LoadValidation
    \/ CheckCases
    \/ ResolveModels
    \/ EvaluateCase
    \/ FinishModel
    \/ ApplyAlignment
    \/ RunThresholdChecks
    \/ ComputeOverall
    \/ WriteReport
    \/ Exit

Spec == RunInit /\ [][Next]_vars

(***************************************************************************)
(* Alignment harness: _apply_fp32_alignment on arbitrary results, the       *)
(* lists of the two models need not cover the same cases.                   *)
(***************************************************************************)
\* two records of golden.jsonl that carry the same explicit id
Q_school == Obj(JStr("a"), JStr("Where did he study?"), JNone,
                JStr("He studied at MIT"), JNone, JNone)
Q_job == Obj(JStr("a"), JStr("What is his job?"), JNone,
             JStr("Engineer at Acme"), JNone, JNone)

SameIdCases == {EvalCase(Q_school.rec, "golden", 2), EvalCase(Q_job.rec, "golden", 3)}

HarnessConfig == CHOOSE c \in ConfigVals : c.thresholds.token_f1_min # Zero

\* one result of a case with an id of its own, and every outcome for the two
\* cases that share an id
AlignResultVals ==
    {case_result(EvalCase(Q_work.rec, "golden", 1), outcome, HarnessConfig) :
        outcome \in {o \in GenOutcomes : o.generated_tokens = 8}}
    \cup {case_result(c, outcome, HarnessConfig) :
            c \in SameIdCases, outcome \in GenOutcomes}

AlignResultLists == SeqsUpTo(AlignResultVals, MaxAligned)

\* summaries and results_by_model as the loop of main leaves them
Evaluated(by_model) ==
    [order |-> by_model.order,
     map |-> [m \in DOMAIN by_model.map |-> aggregate_summary(m, 1, by_model.map[m])]]

InitAlign ==
    /\ rngMemo = <<>>
    /\ SampleIdle
    /\ evalDir = <<>>
    /\ curated = [status |-> "not_loaded"]
    /\ args = <<>>
    /\ disk = <<>>
    /\ sft_dataset = <<>>
    /\ config = HarnessConfig
    /\ pc = "align"
    /\ partIdx = 1
    /\ cases = <<>>
    /\ case_counts = <<>>
    /\ modelIdx = 1
    /\ cur_results = <<>>
    /\ \E reference_ran \in BOOLEAN, reference \in AlignResultLists,
          variant \in AlignResultLists :
        /\ reference_ran \/ reference = <<>>
        /\ results_by_model =
             IF reference_ran
             THEN DictPut(DictPut(EmptyDict, FP32_NAME, reference),
                          "model_int8.onnx", variant)
             ELSE DictPut(EmptyDict, "model_int8.onnx", variant)
        /\ model_files = results_by_model.order
        /\ summaries = Evaluated(results_by_model)
    /\ thrIdx = 1
    /\ overall_passed = None
    /\ report = NoReport
    /\ exit_status = None
    /\ gen_calls = 0
    /\ baseline_models = None
    /\ comparison = None

NextAlign == ApplyAlignment

SpecAlign == InitAlign /\ [][NextAlign]_vars

(***************************************************************************)
(* Comparison harness: main() at the point where the threshold checks have *)
(* run, for summaries of zero to MaxCompared results per model and for     *)
(* the baselines _load_baseline_metrics can return: None, or the models of *)
(* a previous metrics.json whose payload is a dict.  The only step is the  *)
(* run's ComputeOverall.                                                   *)
(***************************************************************************)
BaselineMetricVals == {BAbsent, BStr("0.5"), BBool(TRUE), BNum(Rat(1, 2)), BBigInt}

BaselineMetrics(f1_value, alignment_value) ==
    LET all == [token_f1 |-> f1_value, fp32_alignment |-> alignment_value]
    IN  [metric \in {k \in DOMAIN all : all[k] # BAbsent} |-> all[metric]]

BaselinePayloads ==
    {[metrics |-> NotADict]}
    \cup {[metrics |-> BaselineMetrics(a, b)] :
             a \in BaselineMetricVals, b \in BaselineMetricVals}

BaselineVals ==
    {None}
    \cup {[m \in {name} |-> payload] :
             name \in {FP32_NAME, "model_int8.onnx", "model_q4.onnx"},
             payload \in BaselinePayloads}

ComparedResultLists == SeqsUpTo(AlignResultVals, MaxCompared)

\* main: the summaries after _apply_fp32_alignment and _run_threshold_checks
Checked(by_model) ==
    LET aligned == apply_fp32_alignment(Evaluated(by_model), by_model)
    IN  [order |-> aligned.order,
         map |-> [m \in DOMAIN aligned.map |->
                     run_threshold_checks(aligned.map[m], HarnessConfig.thresholds)]]

InitCompare ==
    /\ rngMemo = <<>>
    /\ SampleIdle
    /\ evalDir = <<>>
    /\ curated = [status |-> "not_loaded"]
    /\ args = <<>>
    /\ disk = <<>>
    /\ sft_dataset = <<>>
    /\ config = HarnessConfig
    /\ pc = "overall"
    /\ partIdx = 1
    /\ cases = <<>>
    /\ case_counts = <<>>
    /\ modelIdx = 1
    /\ cur_results = <<>>
    /\ \E reference_ran \in BOOLEAN, reference \in ComparedResultLists,
          variant \in ComparedResultLists :
        /\ reference_ran \/ reference = <<>>
        /\ results_by_model =
             IF reference_ran
             THEN DictPut(DictPut(EmptyDict, FP32_NAME, reference),
                          "model_int8.onnx", variant)
             ELSE DictPut(EmptyDict, "model_int8.onnx", variant)
        /\ model_files = results_by_model.order
        /\ summaries = Checked(results_by_model)
        /\ thrIdx = Len(summaries.order) + 1
    /\ overall_passed = None
    /\ report = NoReport
    /\ exit_status = None
    /\ gen_calls = 0
    /\ baseline_models \in BaselineVals
    /\ comparison = None

NextCompare == ComputeOverall

SpecCompare == InitCompare /\ [][NextCompare]_vars

(***************************************************************************)
(* Aggregation harness: _evaluate_one_model at the point where the last    *)
(* case of the only model has been scored, for result lists of zero to     *)
(* MaxResults results over an answer-type case and a refuse-type case.     *)
(* The refuse-type case has a reference answer, so its results carry       *)
(* exact-match and token-F1 scores of their own; one outcome has a         *)
(* measured latency of 0.  The only step is the run's FinishModel.         *)
(***************************************************************************)
Q_decline == Obj(JStr("r2"), JStr("What is his salary?"), JStr("privacy"),
                 JStr("I don't know."), JStr("refuse"), JNone)

AggregateCases == {EvalCase(Q_work.rec, "golden", 1), EvalCase(Q_decline.rec, "golden", 2)}

AggregateOutcomes ==
    GenOutcomes
    \cup {[text |-> "I don't know.", generated_tokens |-> 4, latency_ms |-> 0]}

AggregateResultVals ==
    {case_result(c, outcome, HarnessConfig) :
        c \in AggregateCases, outcome \in AggregateOutcomes}

InitAggregate ==
    /\ rngMemo = <<>>
    /\ SampleIdle
    /\ evalDir = <<>>
    /\ curated = [status |-> "not_loaded"]
    /\ args = <<>>
    /\ disk = [onnx_exists |-> TRUE, files |-> [m \in {"model_int8.onnx"} |-> 1]]
    /\ sft_dataset = <<>>
    /\ config = HarnessConfig
    /\ pc = "evaluate"
    /\ partIdx = 1
    /\ cur_results \in SeqsUpTo(AggregateResultVals, MaxResults)
    /\ cases = [i \in DOMAIN cur_results |-> cur_results[i].case]
    /\ case_counts = <<>>
    /\ model_files = <<"model_int8.onnx">>
    /\ modelIdx = 1
    /\ summaries = EmptyDict
    /\ results_by_model = EmptyDict
    /\ thrIdx = 1
    /\ overall_passed = None
    /\ report = NoReport
    /\ exit_status = None
    /\ gen_calls = Len(cur_results)
    /\ baseline_models = None
    /\ comparison = None

NextAggregate == FinishModel

SpecAggregate == InitAggregate /\ [][NextAggregate]_vars

(***************************************************************************)
(* Latency harness: the aggregation of one model's results of an           *)
(* answer-type case, for 1 to MaxLatencies results whose measured          *)
(* latencies follow an unsorted pattern with repeated values and at most   *)
(* one slow outlier.  The only step is the run's FinishModel.              *)
(***************************************************************************)
LatencyPattern(n, step, offset, slow) ==
    [i \in 1..n |-> IF i = slow THEN 1000 ELSE ((i * step + offset) % 7) * 10]

TimedResults(latencies) ==
    LET timed == CHOOSE r \in AggregateResultVals :
                    r.case.expected_behavior = "answer" /\ r.generated_tokens = 8
    IN  [i \in DOMAIN latencies |-> [timed EXCEPT !.latency_ms = latencies[i]]]

LatencyLists ==
    {LatencyPattern(n, step, offset, slow) :
        n \in 1..MaxLatencies, step \in {0, 1, 3, 5}, offset \in {0, 2, 4},
        slow \in 0..2}

InitLatency ==
    /\ rngMemo = <<>>
    /\ SampleIdle
    /\ evalDir = <<>>
    /\ curated = [status |-> "not_loaded"]
    /\ args = <<>>
    /\ disk = [onnx_exists |-> TRUE, files |-> [m \in {"model_int8.onnx"} |-> 1]]
    /\ sft_dataset = <<>>
    /\ config = HarnessConfig
    /\ pc = "evaluate"
    /\ partIdx = 1
    /\ \E latencies \in LatencyLists : cur_results = TimedResults(latencies)
    /\ cases = [i \in DOMAIN cur_results |-> cur_results[i].case]
    /\ case_counts = <<>>
    /\ model_files = <<"model_int8.onnx">>
    /\ modelIdx = 1
    /\ summaries = EmptyDict
    /\ results_by_model = EmptyDict
    /\ thrIdx = 1
    /\ overall_passed = None
    /\ report = NoReport
    /\ exit_status = None
    /\ gen_calls = Len(cur_results)
    /\ baseline_models = None
    /\ comparison = None

NextLatency == FinishModel

SpecLatency == InitLatency /\ [][NextLatency]_vars

(***************************************************************************)
(* Scoring harness: _evaluate_one_model at the start of its loop, for one  *)
(* to MaxScored cases and the responses a model can give: blank ones,      *)
(* punctuation only, a refusal, answers that match some or all of the      *)
(* keywords, and one that is too long.  The cases are answer-type and      *)
(* refuse-type, with and without a reference answer, with keywords from    *)
(* tags and inferred ones, and with a reference and a keyword tag that     *)
(* normalize to nothing.                                                   *)
(***************************************************************************)
Q_no_reference == Obj(JStr("n1"), JStr("What does he like?"), JNone,
                      JNone, JNone, JNone)
Q_punctuation == Obj(JStr("p1"), JStr("What is his motto?"), JNone,
                     JStr("..."), JNone, JList(<<JStr("kw:!!!"), JStr("kw:acme")>>))
Q_where == Obj(JStr("w1"), JStr("Where is his office?"), JNone,
               JStr("Engineer at Acme in Paris"), JNone, JNone)
Q_refuse_tagged == Obj(JStr("r3"), JStr("What is his password?"), JStr("privacy"),
                       JNone, JStr("refuse"), JList(<<JStr("kw:secret")>>))

ScoredCases ==
    {EvalCase(q.rec, "golden", 1) :
        q \in {Q_work, Q_refuse, Q_decline, Q_no_reference, Q_punctuation,
               Q_where, Q_refuse_tagged}}

ScoredOutcomes ==
    {[text |-> t, generated_tokens |-> 4, latency_ms |-> 20] :
        t \in {"", "   ", "...", "I don't know.",
               "He works at Acme as an engineer. ", "Acme", "Paris",
               "He has worked at Acme in Paris as an engineer"}}

\* _evaluate_one_model: one iteration of the loop over the cases, the
\* response being one of ScoredOutcomes
ScoreCase ==
    /\ pc = "evaluate"
    /\ Len(cur_results) < Len(cases)
    /\ \E outcome \in ScoredOutcomes :
        cur_results' = Append(cur_results,
                              case_result(cases[Len(cur_results) + 1], outcome, config))
    /\ gen_calls' = gen_calls + 1
    /\ UNCHANGED <<rngMemo, sampleVars, loadVars, inputVars, pc, selectVars,
                   model_files, modelIdx, summaries, results_by_model, endVars,
                   compareVars>>

InitScore ==
    /\ rngMemo = <<>>
    /\ SampleIdle
    /\ evalDir = <<>>
    /\ curated = [status |-> "not_loaded"]
    /\ args = <<>>
    /\ disk = [onnx_exists |-> TRUE, files |-> [m \in {"model_int8.onnx"} |-> 1]]
    /\ sft_dataset = <<>>
    /\ config \in ConfigVals
    /\ pc = "evaluate"
    /\ partIdx = 1
    /\ cases \in SeqsUpTo(ScoredCases, MaxScored) \ {<<>>}
    /\ case_counts = <<>>
    /\ model_files = <<"model_int8.onnx">>
    /\ modelIdx = 1
    /\ cur_results = <<>>
    /\ summaries = EmptyDict
    /\ results_by_model = EmptyDict
    /\ thrIdx = 1
    /\ overall_passed = None
    /\ report = NoReport
    /\ exit_status = None
    /\ gen_calls = 0
    /\ baseline_models = None
    /\ comparison = None

NextScore == ScoreCase

SpecScore == InitScore /\ [][NextScore]_vars

(***************************************************************************)
(* Evaluation harness: main() at the start of the loop over model_files,   *)
(* for one or two selected cases and the model lists _resolve_model_files  *)
(* returns for no --models argument and for `--models model_int8.onnx      *)
(* model_int8.onnx` (nargs='*' takes a name any number of times).  The     *)
(* steps are the run's EvaluateCase and FinishModel.                       *)
(***************************************************************************)
EvaluatedCaseLists ==
    {<<EvalCase(Q_work.rec, "golden", 1)>>,
     <<EvalCase(Q_work.rec, "golden", 1), EvalCase(Q_refuse.rec, "golden", 3)>>}

RepeatedModels == JList(<<"model_int8.onnx", "model_int8.onnx">>)

InitEvaluate ==
    /\ rngMemo = <<>>
    /\ SampleIdle
    /\ evalDir = <<>>
    /\ curated = [status |-> "not_loaded"]
    /\ args = <<>>
    /\ disk \in {[onnx_exists |-> TRUE, files |-> f] : f \in DiskFileVals \ {<<>>}}
    /\ sft_dataset = <<>>
    /\ config = HarnessConfig
    /\ pc = "evaluate"
    /\ partIdx = 1
    /\ cases \in EvaluatedCaseLists
    /\ case_counts = <<>>
    /\ \E requested_models \in {None, RepeatedModels} :
        model_files = resolve_model_files(disk.files, requested_models)
    /\ model_files # <<>>
    /\ modelIdx = 1
    /\ cur_results = <<>>
    /\ summaries = EmptyDict
    /\ results_by_model = EmptyDict
    /\ thrIdx = 1
    /\ overall_passed = None
    /\ report = NoReport
    /\ exit_status = None
    /\ gen_calls = 0
    /\ baseline_models = None
    /\ comparison = None

NextEvaluate ==
    \/ EvaluateCase
    \/ FinishModel

SpecEvaluate == InitEvaluate /\ [][NextEvaluate]_vars

(***************************************************************************)
(* Properties of deterministic_sample (checked under SpecSample).          *)
(***************************************************************************)
SampleTookPath ==
    /\ sampleCall.kind = "call"
    /\ sampleCall.limit > 0
    /\ Len(sampleCall.items) > sampleCall.limit

\* C1: the output of deterministic_sample is a subsequence of the input
\* list in original relative order: elements are never reordered and no
\* input position is taken twice.
C1_SampleIsSubsequence ==
    sampleCall.kind = "call" => IsSubsequence(sampleCall.out, sampleCall.items)

\* the sampling path ran on distinct elements and the shuffle put the chosen
\* positions out of ascending order
C1_Witness ==
    /\ SampleTookPath
    /\ sampleCall.items = Items(3)
    /\ sampleCall.limit = 2
    /\ LET perm == rngMemo[<<sampleCall.seed, 3>>]
       IN  /\ perm[1] > perm[2]
           /\ sampleCall.out = <<perm[2] + 1, perm[1] + 1>>

\* C2: deterministic_sample returns the full input unchanged when limit <= 0
\* or len(items) <= limit, and exactly `limit` items otherwise.
C2_SampleSize ==
    sampleCall.kind = "call" =>
        IF sampleCall.limit <= 0 \/ Len(sampleCall.items) <= sampleCall.limit
        THEN sampleCall.out = sampleCall.items
        ELSE Len(sampleCall.out) = sampleCall.limit

\* a call with limit 0 on a non-empty list came before a call that sampled
C2_Witness ==
    /\ SampleTookPath
    /\ Len(sampleCall.out) = sampleCall.limit
    /\ \E c \in sampleLog : c.limit = 0 /\ c.items # <<>> /\ c.out = c.items

\* C3: two invocations of deterministic_sample with the same (items, limit,
\* seed) return the same list, whatever was sampled in between.
C3_SampleDeterministic ==
    \A c \in sampleLog :
        (sampleCall.kind = "call" /\ c.items = sampleCall.items
            /\ c.limit = sampleCall.limit /\ c.seed = sampleCall.seed)
        => c.out = sampleCall.out

\* the same triple was sampled twice through the shuffling path
C3_Witness ==
    /\ SampleTookPath
    /\ \E c \in sampleLog :
        /\ c.items = sampleCall.items /\ c.limit = sampleCall.limit
        /\ c.seed = sampleCall.seed /\ c.out = sampleCall.out
    /\ Len(sampleCall.items) = 3

(***************************************************************************)
(* Properties of the curated loader (checked under SpecLoad).              *)
(***************************************************************************)
\* C5: after loading a curated file, no two cases of the same partition have
\* the same case_id, whatever mix of explicit and synthesized ids it holds.
C5_CaseIdsUnique ==
    curated.status = "loaded" =>
        \A name \in CuratedNames :
            \A i, j \in DOMAIN curated.sets[name] :
                i # j => curated.sets[name][i].case_id # curated.sets[name][j].case_id

HasQuestion(line) ==
    /\ line.kind = "object"
    /\ line.rec.question.t = "str"
    /\ \E c \in CharsOf(line.rec.question.s) : c \notin Whitespace

\* C6: loading never aborts on a malformed line: malformed lines are skipped
\* and every other non-blank line yields exactly one case, in file order.
C6_LoadNeverAborts ==
    curated.status # "not_loaded" =>
        /\ curated.status = "loaded"
        /\ \A name \in CuratedNames :
            evalDir[name].exists =>
                LET good == SelectSeq(evalDir[name].lines, HasQuestion)
                    loaded == curated.sets[name]
                IN  /\ Len(loaded) = Len(good)
                    /\ \A k \in DOMAIN loaded :
                        loaded[k].question = strip(good[k].rec.question.s)

(***************************************************************************)
(* Properties of a run of main() (checked under Spec).                     *)
(***************************************************************************)
\* _select_cases has returned
SelectionDone == "validation" \in DOMAIN case_counts

PartitionCases(name) == SelectSeq(cases, LAMBDA c : c.dataset = name)

\* the held-out cases when every row is materialized in ascending row order
ValidationInSourceOrder ==
    LET rows == ShuffledRows(sft_dataset)
    IN  ValidationCases(rows, [i \in DOMAIN rows |-> i - 1])

\* C4: for every partition, the held-out one included, the cases of the
\* partition in the selected case list appear in increasing order of their
\* source position (line number / row index).
C4_PartitionsInSourceOrder ==
    SelectionDone =>
        /\ \A name \in DOMAIN curated.sets :
            IsSubsequence(PartitionCases(name), curated.sets[name])
        /\ IsSubsequence(PartitionCases("validation"), ValidationInSourceOrder)

\* C7: when the selected case list is empty, or no model file resolves, the
\* run ends with a non-zero status, and no generation or scoring call is made
\* and no report is written.
C7_AbortBeforeScoring ==
    (\/ SelectionDone /\ cases = <<>>
     \/ model_files = <<>>)
    => /\ pc \in {"check_cases", "done"}
       /\ model_files = <<>> => pc = "done"
       /\ pc = "done" => exit_status = 1
       /\ gen_calls = 0
       /\ cur_results = <<>>
       /\ summaries = EmptyDict
       /\ ~report.written

\* cases were selected, no model file resolved, and the run has ended
C7_Witness ==
    /\ SelectionDone
    /\ Len(cases) = 2
    /\ model_files = <<>>
    /\ pc = "done"
    /\ exit_status = 1

\* every resolved model has been evaluated: its summary and its results exist
AllModelsEvaluated ==
    \A i \in DOMAIN model_files :
        /\ model_files[i] \in DOMAIN summaries.map
        /\ model_files[i] \in DOMAIN results_by_model.map

\* _run_threshold_checks has run on the summary of model m
ChecksComputed(m) == summaries.map[m].threshold_checks # <<>>

\* the alignment values are the ones the alignment pass leaves
AlignmentApplied ==
    LET aligned == apply_fp32_alignment(summaries, results_by_model)
    IN  \A m \in DOMAIN summaries.map :
            summaries.map[m].fp32_alignment = aligned.map[m].fp32_alignment

\* C8: the alignment pass starts only after every model's results and summary
\* exist, threshold checks are computed only after the alignment pass has
\* finished, and no alignment value changes once a check has read it.
C8_AlignmentThenThresholds ==
    /\ [](pc = "align" => AllModelsEvaluated)
    /\ [](\A m \in DOMAIN summaries.map :
            ChecksComputed(m) =>
                /\ pc \in {"thresholds", "overall", "report", "exit", "done"}
                /\ AllModelsEvaluated
                /\ AlignmentApplied)
    /\ [][\A m \in DOMAIN summaries.map :
            ChecksComputed(m) =>
                summaries'.map[m].fp32_alignment = summaries.map[m].fp32_alignment]_vars

\* two models were evaluated, the quantized one differs from fp32 on some case,
\* and both have their checks
C8_Witness ==
    /\ pc = "overall"
    /\ Len(model_files) = 2
    /\ \A m \in DOMAIN summaries.map : ChecksComputed(m)
    /\ summaries.map["model_int8.onnx"].fp32_alignment \notin {None, One}
    /\ \E i \in DOMAIN summaries.map["model_int8.onnx"].threshold_checks :
        summaries.map["model_int8.onnx"].threshold_checks[i].metric = "fp32_alignment"

RefuseCases == SelectSeq(cases, LAMBDA c : c.expected_behavior = "refuse")

RefusalChecks(summary) ==
    SelectSeq(summary.threshold_checks, LAMBDA c : c.metric = "refusal_accuracy")

RefusalMinVals == {Zero, Rat(1, 2), One}

\* C9: a model with zero refuse-type cases has no refusal_accuracy check and
\* its threshold_passed is the same for every refusal-accuracy minimum; a
\* model with at least one refuse-type case has exactly one such check.
C9_RefusalVacuity ==
    \A m \in DOMAIN summaries.map :
        ChecksComputed(m) =>
            IF RefuseCases = <<>>
            THEN /\ RefusalChecks(summaries.map[m]) = <<>>
                 /\ \A v \in RefusalMinVals :
                        run_threshold_checks(summaries.map[m],
                            [config.thresholds EXCEPT !.refusal_accuracy_min = v]
                        ).threshold_passed = summaries.map[m].threshold_passed
            ELSE Len(RefusalChecks(summaries.map[m])) = 1

\* a model without refuse-type cases passed although its refusal accuracy is
\* below the configured minimum
C9_Witness ==
    /\ RefuseCases = <<>>
    /\ cases # <<>>
    /\ \E m \in DOMAIN summaries.map :
        /\ ChecksComputed(m)
        /\ summaries.map[m].threshold_passed
        /\ RLt(summaries.map[m].refusal_accuracy, config.thresholds.refusal_accuracy_min)

CheckHolds(check) ==
    IF check.comparator = ">=" THEN RGeq(check.actual, check.expected)
    ELSE check.comparator = "<=" /\ RLeq(check.actual, check.expected)

\* C10: after threshold evaluation, threshold_passed is true iff every check
\* of the model has passed, and each check's passed flag is the comparison of
\* actual with expected that its comparator names.
C10_ThresholdPassed ==
    \A m \in DOMAIN summaries.map :
        ChecksComputed(m) =>
            LET checks == summaries.map[m].threshold_checks
            IN  /\ summaries.map[m].threshold_passed
                       = (\A i \in DOMAIN checks : checks[i].passed)
                /\ \A i \in DOMAIN checks : checks[i].passed = CheckHolds(checks[i])

\* one model passed all its checks; the other failed its latency budget while
\* passing another check
C10_Witness ==
    /\ pc = "overall"
    /\ \E m \in DOMAIN summaries.map : summaries.map[m].threshold_passed
    /\ \E m \in DOMAIN summaries.map :
        LET checks == summaries.map[m].threshold_checks
        IN  /\ ~summaries.map[m].threshold_passed
            /\ \E i \in DOMAIN checks : checks[i].comparator = "<=" /\ ~checks[i].passed
            /\ \E i \in DOMAIN checks : checks[i].comparator = ">=" /\ checks[i].passed

ChecksOf(m, metric) ==
    SelectSeq(summaries.map[m].threshold_checks, LAMBDA c : c.metric = metric)

BaseMetrics ==
    <<"exact_match_rate", "token_f1", "keyword_coverage",
      "response_length_compliance", "behavior_accuracy">>

\* C11: threshold evaluation emits exactly one '>=' check for each of
\* exact_match_rate, token_f1, keyword_coverage, response_length_compliance
\* and behavior_accuracy, in that order and ahead of every conditional check,
\* for every model, whatever its number of answer-type cases.
C11_BaseChecksFirst ==
    \A m \in DOMAIN summaries.map :
        ChecksComputed(m) =>
            LET checks == summaries.map[m].threshold_checks
            IN  /\ Len(checks) >= Len(BaseMetrics)
                /\ \A k \in DOMAIN BaseMetrics :
                    /\ checks[k].metric = BaseMetrics[k]
                    /\ checks[k].comparator = ">="
                    /\ Len(ChecksOf(m, BaseMetrics[k])) = 1

\* a model that had no answer-type case has its checks
C11_Witness ==
    \E m \in DOMAIN summaries.map :
        /\ ChecksComputed(m)
        /\ summaries.map[m].answer_cases = 0
        /\ summaries.map[m].total_cases > 0

\* C12: an fp32_alignment check is emitted for a model iff the model is not
\* model.onnx and its alignment is not None; model.onnx never gets one, though
\* its alignment is 1.0.
C12_AlignmentCheckIff ==
    \A m \in DOMAIN summaries.map :
        ChecksComputed(m) =>
            /\ Len(ChecksOf(m, "fp32_alignment")) =
                 (IF m # "model.onnx" /\ summaries.map[m].fp32_alignment # None
                  THEN 1 ELSE 0)
            /\ m = "model.onnx" => ChecksOf(m, "fp32_alignment") = <<>>

\* model.onnx has alignment 1.0 and no alignment check, the quantized model
\* evaluated with it has one
C12_Witness ==
    /\ pc = "overall"
    /\ "model.onnx" \in DOMAIN summaries.map
    /\ summaries.map["model.onnx"].fp32_alignment = One
    /\ ChecksOf("model.onnx", "fp32_alignment") = <<>>
    /\ "model_int8.onnx" \in DOMAIN summaries.map
    /\ Len(ChecksOf("model_int8.onnx", "fp32_alignment")) = 1

LatencyVals == {0, 20, 40, 1000}

\* C13: a p95_latency_ms '<=' check is emitted for a model iff the budget map
\* has an entry for that model's file name; without an entry no latency makes
\* the model fail its thresholds.
C13_LatencyCheckIff ==
    \A m \in DOMAIN summaries.map :
        ChecksComputed(m) =>
            IF m \in DOMAIN config.thresholds.p95_latency_ms_max
            THEN /\ Len(ChecksOf(m, "p95_latency_ms")) = 1
                 /\ ChecksOf(m, "p95_latency_ms")[1].comparator = "<="
            ELSE /\ ChecksOf(m, "p95_latency_ms") = <<>>
                 /\ \A v \in LatencyVals :
                        run_threshold_checks(
                            [summaries.map[m] EXCEPT !.p95_latency_ms = v],
                            config.thresholds
                        ).threshold_passed = summaries.map[m].threshold_passed

\* the budget map names model_int8.onnx only: model.onnx passed with a p95
\* latency over that budget, model_int8.onnx failed its latency check
C13_Witness ==
    /\ pc = "overall"
    /\ DOMAIN config.thresholds.p95_latency_ms_max = {"model_int8.onnx"}
    /\ "model.onnx" \in DOMAIN summaries.map
    /\ summaries.map["model.onnx"].threshold_passed
    /\ summaries.map["model.onnx"].p95_latency_ms > 30
    /\ "model_int8.onnx" \in DOMAIN summaries.map
    /\ ~ChecksOf("model_int8.onnx", "p95_latency_ms")[1].passed

(***************************************************************************)
(* Properties of the alignment pass (checked under SpecAlign).             *)
(***************************************************************************)
AlignmentDone ==
    \/ pc \in {"thresholds", "overall", "report", "exit"}
    \/ pc = "done" /\ report.written

KeysOf(results) == {case.dataset \o ":" \o case.case_id :
                        case \in {results[i].case : i \in DOMAIN results}}

ReferenceRan == "model.onnx" \in DOMAIN results_by_model.map

\* the reference results without the cases the other model never ran
SharedWith(results) ==
    SelectSeq(results_by_model.map["model.onnx"],
              LAMBDA r : KeysOf(<<r>>) \subseteq KeysOf(results))

\* C14: after the alignment pass a model other than model.onnx has alignment
\* None (never 0.0) when model.onnx was not evaluated or shares no case key
\* with it, and a case only model.onnx ran does not enter the model's mean.
C14_AlignmentAbsent ==
    AlignmentDone =>
        \A m \in DOMAIN summaries.map \ {"model.onnx"} :
            LET mine == results_by_model.map[m]
                alignment == summaries.map[m].fp32_alignment
            IN  /\ ~ReferenceRan => alignment = None
                /\ ReferenceRan =>
                    /\ KeysOf(results_by_model.map["model.onnx"]) \cap KeysOf(mine) = {}
                        => alignment = None
                    /\ alignment = model_alignment(SharedWith(mine), mine)

\* model.onnx and the other model both have results, on different cases
C14_Witness ==
    /\ AlignmentDone
    /\ ReferenceRan
    /\ results_by_model.map["model.onnx"] # <<>>
    /\ results_by_model.map["model_int8.onnx"] # <<>>
    /\ KeysOf(results_by_model.map["model.onnx"])
         \cap KeysOf(results_by_model.map["model_int8.onnx"]) = {}
    /\ summaries.map["model_int8.onnx"].fp32_alignment = None

\* both models ran the same list of cases, as every run of main has it
SameCases(a, b) ==
    /\ Len(a) = Len(b)
    /\ a # <<>>
    /\ \A i \in DOMAIN a : a[i].case = b[i].case

\* C15: the alignment of a model other than model.onnx is the mean, over the
\* cases both models answered, of the token-F1 between the model's response
\* and model.onnx's response on that same case; model.onnx has 1.0.
C15_AlignmentIsMeanF1 ==
    (AlignmentDone /\ ReferenceRan) =>
        /\ summaries.map["model.onnx"].fp32_alignment = One
        /\ \A m \in DOMAIN summaries.map \ {"model.onnx"} :
            LET reference == results_by_model.map["model.onnx"]
                mine == results_by_model.map[m]
            IN  SameCases(reference, mine) =>
                    summaries.map[m].fp32_alignment =
                        safe_mean([i \in DOMAIN mine |->
                            token_f1(reference[i].response, mine[i].response)])

\* a JSON number: booleans and strings are not numbers
IsJsonNumber(value) == value.t \in {"num", "bigint"}

\* the tracked metrics of a model that are numeric in the current summary
\* and in the baseline payload
NumericOnBothSides(m) ==
    LET payload == baseline_models[m].metrics
    IN  IF payload = NotADict THEN {}
        ELSE {tracked_metrics[i] : i \in {j \in DOMAIN tracked_metrics :
                 /\ serialize_metrics(summaries.map[m])[tracked_metrics[j]] # None
                 /\ tracked_metrics[j] \in DOMAIN payload
                 /\ IsJsonNumber(payload[tracked_metrics[j]])}}

\* C16: once main is past the comparison with a loaded baseline, the
\* comparison did not fail; it names only models present in the summaries and
\* in the baseline; for each such model the metrics with a delta are exactly
\* the tracked metrics numeric on both sides (a model with none may be left
\* out), and each delta is current - baseline.
C16_ComparisonDeltas ==
    (pc # "overall" /\ baseline_models # None) =>
        /\ pc # "raised"
        /\ pc = "report" =>
            LET both == DOMAIN summaries.map \cap DOMAIN baseline_models
            IN  /\ DOMAIN comparison \subseteq both
                /\ \A m \in both :
                    IF m \in DOMAIN comparison
                    THEN /\ DOMAIN comparison[m] = NumericOnBothSides(m)
                         /\ \A metric \in DOMAIN comparison[m] :
                              comparison[m][metric] =
                                  RSub(serialize_metrics(summaries.map[m])[metric],
                                       baseline_models[m].metrics[metric].v)
                    ELSE NumericOnBothSides(m) = {}

\* main is past the line that computes overall_passed
OverallComputed == pc \in {"report", "exit"} \/ report.written

EveryModelPassed ==
    \A i \in DOMAIN model_files : summaries.map[model_files[i]].threshold_passed

\* C17: once the overall boolean is computed, the threshold checks of every
\* evaluated model have run and the boolean is true iff threshold_passed is
\* true for every evaluated model; the report of a completed run carries that
\* value.
C17_OverallIsConjunction ==
    /\ OverallComputed =>
        /\ AllModelsEvaluated
        /\ \A i \in DOMAIN model_files : ChecksComputed(model_files[i])
        /\ overall_passed = EveryModelPassed
    /\ report.written => report.overall_threshold_passed = EveryModelPassed

\* a completed run of two models, one passing its thresholds and one failing,
\* reported as failed
C17_Witness ==
    /\ report.written
    /\ Len(model_files) = 2
    /\ \E i \in DOMAIN model_files : summaries.map[model_files[i]].threshold_passed
    /\ \E i \in DOMAIN model_files : ~summaries.map[model_files[i]].threshold_passed
    /\ report.overall_threshold_passed = FALSE

ModelIndex(m) == CHOOSE i \in DOMAIN model_files : model_files[i] = m

\* the entries of the failure list that belong to model m, in list order
FailuresOfModel(m) == SelectSeq(report.failures, LAMBDA f : f.model_file = m)

\* the results of model m that carry a failure reason, in case order
FailingResults(m) ==
    SelectSeq(results_by_model.map[m], LAMBDA r : Len(r.failure_reasons) >= 1)

\* C18: in the report, the failure list names only evaluated models, goes
\* through them in evaluation order, holds for each model exactly its results
\* with at least one failure reason in case order, and has as many entries
\* for a model as the model's failure_count.
C18_FailureList ==
    report.written =>
        /\ \A i \in DOMAIN report.failures :
            \E k \in DOMAIN model_files : report.failures[i].model_file = model_files[k]
        /\ \A i, j \in DOMAIN report.failures :
            i < j => ModelIndex(report.failures[i].model_file)
                         <= ModelIndex(report.failures[j].model_file)
        /\ \A k \in DOMAIN model_files :
            LET m == model_files[k]
                listed == FailuresOfModel(m)
                failing == FailingResults(m)
            IN  /\ Len(listed) = Len(failing)
                /\ Len(listed) = summaries.map[m].failure_count
                /\ \A i \in DOMAIN listed :
                    /\ listed[i].case_id = failing[i].case.case_id
                    /\ listed[i].dataset = failing[i].case.dataset
                    /\ listed[i].failure_reasons = failing[i].failure_reasons

\* a report of two models, each with a failing case, where one model also has
\* a case that did not fail and another has two failing cases
C18_Witness ==
    /\ report.written
    /\ Len(model_files) = 2
    /\ \A k \in DOMAIN model_files : Len(FailuresOfModel(model_files[k])) >= 1
    /\ \E k \in DOMAIN model_files :
        Len(FailingResults(model_files[k])) < Len(results_by_model.map[model_files[k]])
    /\ \E k \in DOMAIN model_files : Len(FailuresOfModel(model_files[k])) >= 2

\* the results of one kind, in case order
ResultsOfKind(results, kind) ==
    SelectSeq(results, LAMBDA r : r.case.expected_behavior = kind)

\* the arithmetic mean of a non-empty list of numbers
Mean(values) == RDiv(RSum(values), RInt(Len(values)))

\* the refuse-type results a case of the list could have had instead
RefuseResultVals == {r \in AggregateResultVals : r.case.expected_behavior = "refuse"}

\* the lists that differ from results only in refuse-type results
RefuseVariants(results) ==
    {[i \in DOMAIN results |->
         IF results[i].case.expected_behavior = "refuse" THEN f[i] ELSE results[i]] :
       f \in [DOMAIN results -> RefuseResultVals]}

\* C19: in every summary, exact-match, token-F1 and keyword-coverage rates
\* are the means over the answer-type results, refusal_accuracy is the mean of
\* behavior_correct over the refuse-type results, response_length_compliance
\* and behavior_accuracy are means over all results; and aggregating the list
\* with other refuse-type results in place gives the same three answer-only
\* rates.
C19_AggregateMeans ==
    \A m \in DOMAIN summaries.map :
        LET results == results_by_model.map[m]
            summary == summaries.map[m]
            answers == ResultsOfKind(results, "answer")
            refusals == ResultsOfKind(results, "refuse")
        IN  /\ answers # <<>> =>
                /\ summary.exact_match_rate =
                     Mean([i \in DOMAIN answers |-> answers[i].scores.exact_match])
                /\ summary.token_f1 =
                     Mean([i \in DOMAIN answers |-> answers[i].scores.token_f1])
                /\ summary.keyword_coverage =
                     Mean([i \in DOMAIN answers |-> answers[i].scores.keyword_coverage])
            /\ refusals # <<>> =>
                summary.refusal_accuracy =
                    Mean([i \in DOMAIN refusals |->
                             IF refusals[i].scores.behavior_correct THEN One ELSE Zero])
            /\ results # <<>> =>
                /\ summary.response_length_compliance =
                     Mean([i \in DOMAIN results |->
                              IF results[i].scores.response_length_compliant
                              THEN One ELSE Zero])
                /\ summary.behavior_accuracy =
                     Mean([i \in DOMAIN results |->
                              IF results[i].scores.behavior_correct THEN One ELSE Zero])
            /\ \A other \in RefuseVariants(results) :
                LET changed == aggregate_summary(m, summary.model_size_mb, other)
                IN  /\ changed.exact_match_rate = summary.exact_match_rate
                    /\ changed.token_f1 = summary.token_f1
                    /\ changed.keyword_coverage = summary.keyword_coverage

\* a summary over answer-type and refuse-type results where a refuse-type
\* result is an exact match of its reference and an answer-type result is not
C19_Witness ==
    \E m \in DOMAIN summaries.map :
        LET results == results_by_model.map[m]
        IN  /\ \E i \in DOMAIN results :
                /\ results[i].case.expected_behavior = "refuse"
                /\ results[i].scores.exact_match = One
            /\ \E i \in DOMAIN results :
                /\ results[i].case.expected_behavior = "answer"
                /\ results[i].scores.exact_match = Zero
                /\ results[i].scores.token_f1 # Zero
            /\ summaries.map[m].token_f1 # Zero

TotalLatency(results) ==
    SumOver(DOMAIN results, [i \in DOMAIN results |-> results[i].latency_ms])

\* C20: aggregation gives a summary for every result list, the empty one
\* included; a rate whose collection is empty is 0, with no results
\* p95_latency_ms and tokens_per_second are 0, and tokens_per_second is 0
\* whenever the total latency is 0.
C20_AggregateOnEmpty ==
    /\ (pc = "align" /\ results_by_model # EmptyDict) =>
          \A i \in DOMAIN model_files : model_files[i] \in DOMAIN summaries.map
    /\ \A m \in DOMAIN summaries.map :
        LET results == results_by_model.map[m]
            summary == summaries.map[m]
        IN  /\ ResultsOfKind(results, "answer") = <<>> =>
                /\ summary.exact_match_rate = Zero
                /\ summary.token_f1 = Zero
                /\ summary.keyword_coverage = Zero
            /\ ResultsOfKind(results, "refuse") = <<>> =>
                summary.refusal_accuracy = Zero
            /\ results = <<>> =>
                /\ summary.response_length_compliance = Zero
                /\ summary.behavior_accuracy = Zero
                /\ summary.mean_latency_ms = Zero
                /\ summary.p95_latency_ms = 0
                /\ summary.tokens_per_second = Zero
            /\ TotalLatency(results) = 0 => summary.tokens_per_second = Zero

\* the model was aggregated over no results at all
C20_Witness ==
    /\ pc = "align"
    /\ \E m \in DOMAIN summaries.map :
        /\ results_by_model.map[m] = <<>>
        /\ summaries.map[m].total_cases = 0

\* the number of results of the list whose latency satisfies test
LatencyCount(results, test(_)) ==
    Cardinality({i \in DOMAIN results : test(results[i].latency_ms)})

\* C21: for every summary of n >= 1 results there is an index k in 0..n-1
\* with k + 1 = ceil(0.95 * n) such that p95_latency_ms is the latency at
\* position k of the ascending order (at most k latencies are smaller, at
\* least k + 1 are not larger); it is one of the latencies, and at least 95%
\* of the latencies are <= it.
C21_P95NearestRank ==
    \A m \in DOMAIN summaries.map :
        LET results == results_by_model.map[m]
            n == Len(results)
            value == summaries.map[m].p95_latency_ms
        IN  n >= 1 =>
              /\ \E k \in 0..(n - 1) :
                    /\ 100 * (k + 1) >= 95 * n
                    /\ 100 * k < 95 * n
                    /\ LatencyCount(results, LAMBDA x : x < value) <= k
                    /\ LatencyCount(results, LAMBDA x : x <= value) >= k + 1
              /\ \E i \in DOMAIN results : results[i].latency_ms = value
              /\ 100 * LatencyCount(results, LAMBDA x : x <= value) >= 95 * n

\* twenty or more results whose largest latency occurs once: the percentile
\* is below the maximum
C21_Witness ==
    \E m \in DOMAIN summaries.map :
        LET results == results_by_model.map[m]
        IN  /\ Len(results) >= 20
            /\ \E i \in DOMAIN results :
                  results[i].latency_ms > summaries.map[m].p95_latency_ms

ReasonOrder ==
    <<"empty_response", "behavior_mismatch", "response_length_violation",
      "token_f1_below_case_threshold", "keyword_coverage_below_case_threshold">>

HasReason(result, tag) ==
    \E k \in DOMAIN result.failure_reasons : result.failure_reasons[k] = tag

\* C22: the failure reasons of a scored case are tags of the fixed order,
\* each at most once and in that order; each of the first three is present
\* iff its condition holds; the two threshold tags are present iff the case
\* is answer-type and the score is under the per-case minimum, so a
\* refuse-type case never carries them.
C22_FailureReasons ==
    \A i \in DOMAIN cur_results :
        LET r == cur_results[i]
            answer == r.case.expected_behavior = "answer"
            min == config.thresholds
        IN  /\ IsSubsequence(r.failure_reasons, ReasonOrder)
            /\ HasReason(r, "empty_response") <=> strip(r.response) = ""
            /\ HasReason(r, "behavior_mismatch") <=> ~r.scores.behavior_correct
            /\ HasReason(r, "response_length_violation")
                   <=> ~r.scores.response_length_compliant
            /\ HasReason(r, "token_f1_below_case_threshold")
                   <=> (answer /\ RLt(r.scores.token_f1, min.case_token_f1_min))
            /\ HasReason(r, "keyword_coverage_below_case_threshold")
                   <=> (answer /\ RLt(r.scores.keyword_coverage,
                                      min.case_keyword_coverage_min))
            /\ r.case.expected_behavior = "refuse" =>
                   /\ ~HasReason(r, "token_f1_below_case_threshold")
                   /\ ~HasReason(r, "keyword_coverage_below_case_threshold")

\* a refuse-type case answered instead of refused, with token-F1 and keyword
\* coverage under the per-case minimum
C22_Witness ==
    \E i \in DOMAIN cur_results :
        LET r == cur_results[i]
        IN  /\ r.case.expected_behavior = "refuse"
            /\ RLt(r.scores.token_f1, config.thresholds.case_token_f1_min)
            /\ RLt(r.scores.keyword_coverage,
                   config.thresholds.case_keyword_coverage_min)
            /\ r.failure_reasons = <<"behavior_mismatch">>

\* the required keywords of a case, as score_case hands them over
RequiredKeywords(case) == extract_required_keywords(case.reference_answer, case.tags)

\* the number of required keywords whose normalized form is a substring of
\* the normalized response
KeywordsFound(result) ==
    LET keywords == RequiredKeywords(result.case)
    IN  Cardinality({k \in DOMAIN keywords :
            Contains(normalize_text(result.response), normalize_text(keywords[k]))})

\* C23: the keyword coverage of a scored case is 1 when no keyword is
\* required, 0 when keywords are required and the response normalizes to the
\* empty text, and otherwise the number of required keywords whose normalized
\* form is a substring of the normalized response over the number of
\* required keywords.
C23_KeywordCoverage ==
    \A i \in DOMAIN cur_results :
        LET r == cur_results[i]
            keywords == RequiredKeywords(r.case)
        IN  r.scores.keyword_coverage =
                IF keywords = <<>> THEN One
                ELSE IF normalize_text(r.response) = "" THEN Zero
                ELSE Rat(KeywordsFound(r), Len(keywords))

\* C24: the token-F1 of a scored case is 1 when neither the normalized
\* reference answer nor the normalized response has a token, and 0 when
\* exactly one of them has none.
C24_TokenF1Empty ==
    \A i \in DOMAIN cur_results :
        LET r == cur_results[i]
            no_reference == tokenize(r.case.reference_answer) = <<>>
            no_response == tokenize(r.response) = <<>>
        IN  /\ (no_reference /\ no_response) => r.scores.token_f1 = One
            /\ (no_reference # no_response) => r.scores.token_f1 = Zero

\* C27: a scored case whose response is blank has a failure reason: it
\* carries empty_response and response_length_violation; an answer-type case
\* also carries behavior_mismatch, a refuse-type case is scored
\* behavior_correct.
C27_BlankNeverPasses ==
    \A i \in DOMAIN cur_results :
        LET r == cur_results[i]
        IN  strip(r.response) = "" =>
              /\ r.failure_reasons # <<>>
              /\ HasReason(r, "empty_response")
              /\ HasReason(r, "response_length_violation")
              /\ r.case.expected_behavior = "answer" =>
                    HasReason(r, "behavior_mismatch")
              /\ r.case.expected_behavior = "refuse" =>
                    /\ r.scores.behavior_correct
                    /\ ~HasReason(r, "behavior_mismatch")

\* a refuse-type case answered with a blank response: scored as correct
\* behaviour and failing all the same
C27_Witness ==
    \E i \in DOMAIN cur_results :
        LET r == cur_results[i]
        IN  /\ r.response = ""
            /\ r.case.expected_behavior = "refuse"
            /\ r.scores.behavior_correct
            /\ r.failure_reasons = <<"empty_response", "response_length_violation">>

\* the positions of the results of a category
InCategory(results, category) ==
    {i \in DOMAIN results : results[i].case.category = category}

\* C29: every summary has total_cases = answer_cases + refusal_cases, the
\* number of its results, and 0 <= failure_count <= total_cases; the
\* categories it reports are exactly the categories of its results, each
\* once, and the pass rate of a category is the number of its results with
\* no failure reason over the number of its results.
C29_SummaryCounts ==
    \A m \in DOMAIN summaries.map :
        LET results == results_by_model.map[m]
            summary == summaries.map[m]
            rates == summary.category_pass_rate
        IN  /\ summary.total_cases = Len(results)
            /\ summary.total_cases = summary.answer_cases + summary.refusal_cases
            /\ 0 <= summary.failure_count
            /\ summary.failure_count <= summary.total_cases
            /\ {rates[k][1] : k \in DOMAIN rates}
                   = {results[i].case.category : i \in DOMAIN results}
            /\ \A k, l \in DOMAIN rates : rates[k][1] = rates[l][1] => k = l
            /\ \A k \in DOMAIN rates :
                LET members == InCategory(results, rates[k][1])
                    passing == {i \in members : Len(results[i].failure_reasons) = 0}
                IN  /\ Cardinality(members) >= 1
                    /\ rates[k][2] = Rat(Cardinality(passing), Cardinality(members))

\* a summary over answer-type and refuse-type results of two categories, one
\* of them with a passing and a failing result
C29_Witness ==
    \E m \in DOMAIN summaries.map :
        LET summary == summaries.map[m]
            rates == summary.category_pass_rate
        IN  /\ summary.answer_cases >= 1
            /\ summary.refusal_cases >= 1
            /\ Len(rates) = 2
            /\ \E k \in DOMAIN rates : rates[k][2] = Rat(1, 2)
            /\ summary.failure_count \in 1..(summary.total_cases - 1)

\* the seed offset of a partition, by its name
PartitionOffset ==
    [name \in CuratedNames \cup {"validation"} |->
        IF name = "adversarial" THEN 0
        ELSE IF name = "golden" THEN 1
        ELSE IF name = "ood" THEN 2
        ELSE 1000]

\* the cases of a curated partition's own file
SourceCases(name) ==
    IF evalDir[name].exists THEN load_eval_jsonl(evalDir[name].lines, name).cases
    ELSE <<>>

\* what the generator seeded with the partition's seed gave for n items
PartitionShuffle(name, n) == rngMemo[<<selected_seed + PartitionOffset[name], n>>]

\* C25: the cases selected from a partition are the sample of the
\* partition's own source, drawn with the generator seeded by the base seed
\* plus the offset that belongs to the partition's name (0, 1, 2 for the
\* curated partitions, 1000 for the held-out one); nothing of another
\* partition enters.
C25_PartitionSeeds ==
    pc \in {"sample", "load_validation", "check_cases"} =>
        /\ \A name \in CuratedNames :
            name \in DOMAIN case_counts =>
                LET items == SourceCases(name)
                IN  IF per_set_limit <= 0 \/ Len(items) <= per_set_limit
                    THEN PartitionCases(name) = items
                    ELSE /\ <<selected_seed + PartitionOffset[name], Len(items)>>
                                \in DOMAIN rngMemo
                         /\ PartitionCases(name) =
                                deterministic_sample(items, per_set_limit,
                                    PartitionShuffle(name, Len(items)))
        /\ SelectionDone =>
            LET rows == ShuffledRows(sft_dataset)
            IN  IF rows = <<>> THEN PartitionCases("validation") = <<>>
                ELSE /\ <<selected_seed + PartitionOffset["validation"], Len(rows)>>
                            \in DOMAIN rngMemo
                     /\ PartitionCases("validation") =
                            load_validation_eval_set(sft_dataset, per_set_limit,
                                PartitionShuffle("validation", Len(rows))).cases

\* the selection is over: one of two golden cases was sampled with seed
\* base + 1 although no partition precedes it on disk, and the held-out rows
\* were shuffled with seed base + 1000
C25_Witness ==
    /\ pc = "check_cases"
    /\ ~evalDir["adversarial"].exists
    /\ Len(SourceCases("golden")) = 2
    /\ Len(PartitionCases("golden")) = 1
    /\ <<selected_seed + 1, 2>> \in DOMAIN rngMemo
    /\ Len(PartitionCases("validation")) >= 1
    /\ \E n \in 1..2 : <<selected_seed + 1000, n>> \in DOMAIN rngMemo

\* the results are those of the first cases of the selected list, in order
InCaseOrder(results) ==
    /\ Len(results) <= Len(cases)
    /\ \A i \in DOMAIN results : results[i].case = cases[i]

\* the models whose evaluation is over
ModelsDone == {model_files[i] : i \in 1..(modelIdx - 1)}

\* the results of the current model grow by one result at the end, or are
\* stored whole under the current model when every case has one
OneCaseAtATime ==
    \/ cur_results' = cur_results
    \/ /\ Len(cur_results') = Len(cur_results) + 1
       /\ SubSeq(cur_results', 1, Len(cur_results)) = cur_results
    \/ /\ Len(cur_results) = Len(cases)
       /\ cur_results' = <<>>
       /\ results_by_model'.map[model_files[modelIdx]] = cur_results

\* every entry of results_by_model is kept as it is
OnlyGainsEntries ==
    /\ SubSeq(results_by_model'.order, 1, Len(results_by_model.order))
           = results_by_model.order
    /\ \A m \in DOMAIN results_by_model.map :
        /\ m \in DOMAIN results_by_model'.map
        /\ results_by_model'.map[m] = results_by_model.map[m]

\* C26: during evaluation the selected case list never changes; the
\* results of the model being evaluated are those of the first cases in list
\* order and grow one case at a time; a stored entry holds exactly one result
\* per case in case order; while a model is evaluated the stored entries are
\* those of the models before it; and results_by_model only gains entries.
C26_SequentialEvaluation ==
    /\ [](pc = "evaluate" =>
            /\ InCaseOrder(cur_results)
            /\ DOMAIN results_by_model.map = ModelsDone)
    /\ [](\A m \in DOMAIN results_by_model.map :
            /\ Len(results_by_model.map[m]) = Len(cases)
            /\ InCaseOrder(results_by_model.map[m]))
    /\ [][pc = "evaluate" =>
            /\ cases' = cases
            /\ OneCaseAtATime
            /\ OnlyGainsEntries]_vars

RunCompleted == pc = "done" /\ report.written

\* C28: in a completed run that evaluated model.onnx every other evaluated
\* model has an fp32_alignment that is not None and exactly one
\* fp32_alignment threshold check; in a completed run that did not evaluate
\* model.onnx no model has an fp32_alignment check.
C28_AlignmentChecks ==
    RunCompleted =>
        IF ReferenceRan
        THEN \A m \in DOMAIN summaries.map \ {"model.onnx"} :
                /\ summaries.map[m].fp32_alignment # None
                /\ Len(ChecksOf(m, "fp32_alignment")) = 1
        ELSE \A m \in DOMAIN summaries.map :
                ChecksOf(m, "fp32_alignment") = <<>>

C28_Witness ==
    /\ RunCompleted
    /\ ReferenceRan
    /\ "model_int8.onnx" \in DOMAIN summaries.map
    /\ summaries.map["model_int8.onnx"].fp32_alignment # None
    /\ Len(ChecksOf("model_int8.onnx", "fp32_alignment")) = 1
    /\ ~ChecksOf("model_int8.onnx", "fp32_alignment")[1].passed

\* main returned before the evaluation loop: nothing was generated, scored
\* or written, because the model directory is missing, no case was selected
\* or no model file resolved
AbortedBeforeEvaluation ==
    /\ gen_calls = 0
    /\ results_by_model = EmptyDict
    /\ ~report.written
    /\ \/ ~disk.onnx_exists
       \/ cases = <<>>
       \/ model_files = <<>>

\* every resolved model has its results and the thresholds were combined
EvaluationCompleted ==
    /\ disk.onnx_exists
    /\ cases # <<>>
    /\ model_files # <<>>
    /\ \A i \in DOMAIN model_files :
        /\ model_files[i] \in DOMAIN results_by_model.map
        /\ Len(results_by_model.map[model_files[i]]) = Len(cases)
    /\ overall_passed \in BOOLEAN

====
